---- MODULE Spec2Model ----
(***************************************************************************)
(* Model of the government web performance dashboard: the Lighthouse audit *)
(* script (scripts/run-lighthouse.js: auditAllCountries, extractMetrics,   *)
(* saveReport, updateManifest) writing the report store, and the read side *)
(* (utils/api.ts: the fetch* loaders, calculateRankings,                   *)
(* getCountryHistoricalData, calculateAverageScores).                      *)
(***************************************************************************)
EXTENDS Integers, Sequences, FiniteSets, TLC

VARIABLES
    manifest,    \* reports/manifest.json
    summaries,   \* reports/<month>-summary.json, by month key
    details,     \* reports/<month>/<tld>.json, by month key and tld
    legacy,      \* reports/<month>.json (old single-file format), by month key
    pc,          \* position of the audit process
    countries,   \* the script's `countries` after loading and filtering
    idx,         \* loop variable i of auditAllCountries
    reports,     \* the `reports` array auditAllCountries builds
    chrome,      \* number of live browser sessions
    attempts,    \* how many times each position of the site list was audited
    tick,        \* the wall clock, as the number of script starts so far
    exitCode,    \* exit status of the last finished script run
    call,        \* read side: the function called and its arguments
    ret          \* read side: the value returned

vars == <<manifest, summaries, details, legacy, pc, countries, idx, reports,
          chrome, attempts, tick, exitCode, call, ret>>

storeVars == <<manifest, summaries, details, legacy>>
procVars == <<pc, countries, idx, reports, chrome, attempts, tick, exitCode>>
readVars == <<call, ret>>

(***************************************************************************)
(* Bounds                                                                  *)
(***************************************************************************)
MaxRuns == 2      \* script runs per behaviour

(***************************************************************************)
(* Values                                                                  *)
(***************************************************************************)
Absent == [st |-> "absent"]          \* fs.existsSync false / fetch not ok
Malformed == [st |-> "malformed"]    \* file exists, JSON.parse throws
Json(d) == [st |-> "ok", doc |-> d]

Undefined == [t |-> "undefined"]     \* a JavaScript value that is not set

Metrics == {"performance", "accessibility", "bestPractices", "seo"}
CategoryIds == {"performance", "accessibility", "best-practices", "seo"}

\* String.prototype.localeCompare on site names: the sign of the difference
\* of the collation positions; canonically equivalent strings compare 0.
CollationKey(name) ==
    CASE name = "Austria" -> 1
      [] name = "Belgium" -> 2
      [] name = "Cote-NFC" -> 3
      [] name = "Cote-NFD" -> 3
      [] name = "Denmark" -> 4
      [] OTHER -> 5

LocaleCompare(a, b) == CollationKey(a) - CollationKey(b)

\* `${now.getFullYear()}-${String(now.getMonth() + 1).padStart(2, '0')}`:
\* the key as its sequence of characters, digits as 0..9 and '-' as -1.
Digits4(y) == <<y \div 1000, (y \div 100) % 10, (y \div 10) % 10, y % 10>>

PadStart2(n) == IF n < 10 THEN <<0, n>> ELSE <<n \div 10, n % 10>>

MonthKey(now) == Digits4(now.year) \o <<-1>> \o PadStart2(now.month + 1)

\* localeCompare on month keys: first differing character decides, a proper
\* prefix sorts first.
RECURSIVE KeyCompare(_, _)
KeyCompare(a, b) ==
    IF a = <<>> /\ b = <<>> THEN 0
    ELSE IF a = <<>> THEN -1
    ELSE IF b = <<>> THEN 1
    ELSE IF Head(a) # Head(b) THEN Head(a) - Head(b)
    ELSE KeyCompare(Tail(a), Tail(b))

\* Array.prototype.sort with a consistent comparator: stable (ES2019), so
\* element i lands after everything that compares before it and after the
\* earlier elements that compare equal to it.
\* cmp[i][j] is the comparator's value on (seq[i], seq[j]).
StableSort(seq, cmp) ==
    LET n == Len(seq)
        pos(i) == 1 + Cardinality({j \in 1..n :
                        \/ cmp[j][i] < 0
                        \/ (cmp[j][i] = 0 /\ j < i)})
    IN  [k \in 1..n |-> seq[CHOOSE i \in 1..n : pos(i) = k]]

\* What an array holds after `list.sort(cmp)`: sort works in place.
AfterInPlaceSort(list, sorted) == sorted

\* What the array `list` holds after `[...list].sort(cmp)`: the spread makes
\* a copy, the copy is sorted into `sorted`, and `list` keeps its order.
AfterCopySort(list, sorted) == list

\* Array.prototype.findIndex, 1-based; 0 when nothing matches (the code's -1).
\* hits[i] is the predicate's value on element i.
FindIndex(hits) ==
    IF \E i \in 1..Len(hits) : hits[i]
    THEN CHOOSE i \in 1..Len(hits) : hits[i] /\ \A j \in 1..(i - 1) : ~hits[j]
    ELSE 0

SeqsUpTo(S, n) == UNION {[1..k -> S] : k \in 0..n}

(***************************************************************************)
(* JavaScript values of the raw audit result                               *)
(***************************************************************************)
Null == [t |-> "null"]
Num(x) == [t |-> "number", v |-> x]
Str(x) == [t |-> "string", v |-> x]
NaN == [t |-> "NaN"]                 \* 0 / 0, undefined * 100, and Math.round of them

\* `x || null` / `x || 0` on a number-or-missing value: 0, null and
\* undefined are falsy.
Falsy(x) == x = Null \/ x = Undefined \/ x = Num(0)

OrNull(x) == IF Falsy(x) THEN Null ELSE x

\* ref.weight || 0, as the number itself.
OrZero(x) == IF Falsy(x) THEN 0 ELSE x.v

\* Math.round(n / d) for n >= 0, d > 0: halves round up.
MathRound(n, d) == (2 * n + d) \div (2 * d)

(***************************************************************************)
(* Metric Extractor (extractMetrics).  Raw scores are fractions 0..1 held  *)
(* in thousandths.  An lhr is                                              *)
(*   [categories : categoryId -> [score, auditRefs],                       *)
(*    audits     : auditId -> [score, scoreDisplayMode, details,           *)
(*                             numericValue]]                              *)
(* with absent keys left out of the function's domain.  The pass-through   *)
(* strings (title, description, displayValue, numericUnit) are left out.   *)
(***************************************************************************)
Thousand == 1000

\* categories.performance.score etc. raise a TypeError when the category is
\* absent.
ExtractThrows(lhr) == \E c \in CategoryIds : c \notin DOMAIN lhr.categories

\* Math.round(categories[c].score * 100); null * 100 is 0, undefined * 100
\* is NaN.
CategoryScore(lhr, c) ==
    LET s == lhr.categories[c].score
    IN  IF s = Null THEN 0
        ELSE IF s = Undefined THEN NaN
        ELSE MathRound(s.v * 100, Thousand)

\* const score = audit.score !== null ? audit.score : 1.  A score that is
\* not set stays undefined: `undefined < 1`, `undefined === 0` and
\* `undefined < 0.5` are all false, which is how the value 1 behaves too.
EffectiveScore(audit) ==
    IF audit.score = Null \/ audit.score = Undefined THEN Thousand ELSE audit.score.v

\* The inclusion test with `score <= 1` in place of `score < 1`.
IncludeAuditAtMostOne(audit) ==
    \/ EffectiveScore(audit) <= Thousand
    \/ (audit.scoreDisplayMode = "informative" /\ audit.details)

\* score < 1 || (audit.scoreDisplayMode === 'informative' && audit.details)
IncludeAudit(audit) ==
    \/ EffectiveScore(audit) < Thousand
    \/ (audit.scoreDisplayMode = "informative" /\ audit.details)

\* The classification with `score <= 0.5` for medium.
SeverityHalfIsMedium(audit) ==
    IF EffectiveScore(audit) = 0 THEN "high"
    ELSE IF 2 * EffectiveScore(audit) <= Thousand THEN "medium"
    ELSE "low"

\* score === 0 ? 'high' : score < 0.5 ? 'medium' : 'low'
Severity(audit) ==
    IF EffectiveScore(audit) = 0 THEN "high"
    ELSE IF 2 * EffectiveScore(audit) < Thousand THEN "medium"
    ELSE "low"

SeverityOrder(sev) ==
    CASE sev = "high" -> 0
      [] sev = "medium" -> 1
      [] sev = "low" -> 2

\* The comparator with the weights the other way round: ascending.
IssueCompareWeightAscending(a, b) ==
    IF SeverityOrder(a.severity) # SeverityOrder(b.severity)
    THEN SeverityOrder(a.severity) - SeverityOrder(b.severity)
    ELSE a.weight - b.weight

IssueCompare(a, b) ==
    IF SeverityOrder(a.severity) # SeverityOrder(b.severity)
    THEN SeverityOrder(a.severity) - SeverityOrder(b.severity)
    ELSE b.weight - a.weight

IssueOf(lhr, ref) ==
    LET audit == lhr.audits[ref.id]
    IN  [id |-> ref.id,
         score |-> audit.score,
         scoreDisplayMode |-> audit.scoreDisplayMode,
         severity |-> Severity(audit),
         weight |-> OrZero(ref.weight),
         numericValue |-> OrNull(audit.numericValue)]

ExtractAuditsForCategory(lhr, categoryId) ==
    LET category == lhr.categories[categoryId]
        auditRefs == IF "auditRefs" \in DOMAIN category THEN category.auditRefs ELSE <<>>
        Kept(ref) == ref.id \in DOMAIN lhr.audits /\ IncludeAudit(lhr.audits[ref.id])
        kept == SelectSeq(auditRefs, Kept)
        failedAudits == [i \in 1..Len(kept) |-> IssueOf(lhr, kept[i])]
    IN  StableSort(failedAudits,
                   [i \in 1..Len(kept) |-> [j \in 1..Len(kept) |->
                       IssueCompare(failedAudits[i], failedAudits[j])]])

\* audits[key]?.numericValue || null
TimingOf(lhr, key) ==
    IF key \in DOMAIN lhr.audits THEN OrNull(lhr.audits[key].numericValue) ELSE Null

ExtractMetrics(lhr) ==
    [performance |-> CategoryScore(lhr, "performance"),
     accessibility |-> CategoryScore(lhr, "accessibility"),
     bestPractices |-> CategoryScore(lhr, "best-practices"),
     seo |-> CategoryScore(lhr, "seo"),
     audits |-> [performance |-> ExtractAuditsForCategory(lhr, "performance"),
                 accessibility |-> ExtractAuditsForCategory(lhr, "accessibility"),
                 bestPractices |-> ExtractAuditsForCategory(lhr, "best-practices"),
                 seo |-> ExtractAuditsForCategory(lhr, "seo")],
     timing |-> [firstContentfulPaint |-> TimingOf(lhr, "first-contentful-paint"),
                 largestContentfulPaint |-> TimingOf(lhr, "largest-contentful-paint"),
                 totalBlockingTime |-> TimingOf(lhr, "total-blocking-time"),
                 cumulativeLayoutShift |-> TimingOf(lhr, "cumulative-layout-shift"),
                 speedIndex |-> TimingOf(lhr, "speed-index")]]

\* The placeholder auditAllCountries pushes for a failed site.
ZeroMetrics == [performance |-> 0, accessibility |-> 0, bestPractices |-> 0, seo |-> 0]

\* Raw results the audit source returns in the model.
Category(score, refs) == [score |-> score, auditRefs |-> refs]
Ref(id, weight) == [id |-> id, weight |-> Num(weight)]
Audit(score, mode, det, nv) ==
    [score |-> score, scoreDisplayMode |-> mode, details |-> det, numericValue |-> nv]

LhrAudits ==
    [id \in {"first-contentful-paint", "speed-index", "uses-http2", "image-alt"} |->
        CASE id = "first-contentful-paint" -> Audit(Num(450), "numeric", TRUE, Num(1200))
          [] id = "speed-index" -> Audit(Num(1000), "numeric", TRUE, Num(0))
          [] id = "uses-http2" -> Audit(Num(0), "binary", FALSE, Undefined)
          [] id = "image-alt" -> Audit(Null, "informative", TRUE, Undefined)]

LhrCategories(p, a, b, s) ==
    [c \in CategoryIds |->
        CASE c = "performance" ->
                Category(Num(p), <<Ref("speed-index", 10), Ref("first-contentful-paint", 10),
                                   Ref("uses-http2", 0)>>)
          [] c = "accessibility" -> Category(Num(a), <<Ref("image-alt", 7), Ref("no-such-audit", 1)>>)
          [] c = "best-practices" -> Category(Num(b), <<>>)
          [] c = "seo" -> Category(s, <<>>)]

LhrGood == [categories |-> LhrCategories(800, 900, 700, Num(600)), audits |-> LhrAudits]
LhrNoSeo ==
    [categories |-> [c \in CategoryIds \ {"seo"} |-> LhrCategories(500, 500, 500, Null)[c]],
     audits |-> LhrAudits]

LhrPool == {LhrGood, LhrNoSeo}

(***************************************************************************)
(* Report Merger (saveReport) and Manifest Indexer (updateManifest)        *)
(***************************************************************************)
\* Sites countries.json may list.  Nothing in the script checks that names
\* or tlds are unique, and the file may be edited between runs.
Austria == [name |-> "Austria", url |-> "https://www.oesterreich.gv.at", tld |-> "at"]
Belgium == [name |-> "Belgium", url |-> "https://www.belgium.be", tld |-> "be"]
BelgiumAt == [name |-> "Belgium", url |-> "https://www.belgium.be", tld |-> "at"]

CountryPool == {Austria, Belgium, BelgiumAt}

\* The versions of countries.json a run may find.
SiteLists ==
    {<<>>, <<Austria>>, <<Belgium>>, <<BelgiumAt>>,
     <<Austria, Belgium>>, <<Belgium, Austria>>,
     <<Austria, BelgiumAt>>, <<BelgiumAt, Austria>>,
     <<Belgium, BelgiumAt>>, <<BelgiumAt, Belgium>>}

Tlds == {c.tld : c \in CountryPool}

\* Values of `new Date()` at saveReport: getFullYear() and getMonth() (0-based).
NowPool == {[year |-> 2024, month |-> 1], [year |-> 2024, month |-> 9]}

MonthKeys == {MonthKey(now) : now \in NowPool}

SummaryFilename(month) == [month |-> month, suffix |-> "-summary.json"]

\* The summary version of a report: audits and timing dropped.
SummaryReport(newReport) ==
    [country |-> newReport.country,
     tld |-> newReport.tld,
     url |-> newReport.url,
     timestamp |-> newReport.timestamp,
     metrics |-> [performance |-> newReport.metrics.performance,
                  accessibility |-> newReport.metrics.accessibility,
                  bestPractices |-> newReport.metrics.bestPractices,
                  seo |-> newReport.metrics.seo]]

\* allReports.findIndex(r => r.country === newReport.country)
SameCountry(r, newReport) == r.country = newReport.country

\* The merge loop's iteration without the lookup: always pushes.
MergeOneAppend(allReports, newReport) == Append(allReports, SummaryReport(newReport))

\* One iteration of the merge loop on allReports.
MergeOne(allReports, newReport) ==
    LET index == FindIndex([i \in 1..Len(allReports) |->
                                SameCountry(allReports[i], newReport)])
    IN  IF index # 0
        THEN [allReports EXCEPT ![index] = SummaryReport(newReport)]
        ELSE Append(allReports, SummaryReport(newReport))

RECURSIVE MergeLoop(_, _)
MergeLoop(allReports, newReports) ==
    IF newReports = <<>> THEN allReports
    ELSE MergeLoop(MergeOne(allReports, Head(newReports)), Tail(newReports))

CountryCompare(a, b) == LocaleCompare(a.country, b.country)

\* allReports.sort((a, b) => a.country.localeCompare(b.country))
SortByCountry(allReports) ==
    StableSort(allReports,
               [i \in 1..Len(allReports) |-> [j \in 1..Len(allReports) |->
                   CountryCompare(allReports[i], allReports[j])]])

\* The existing summary's reports; a missing or unparseable file starts fresh.
ExistingReports(file) == IF file.st = "ok" THEN file.doc.reports ELSE <<>>

\* The reports array of the summary saveReport writes.
MergedReports(file, newReports) ==
    SortByCountry(MergeLoop(ExistingReports(file), newReports))

\* The detail files of one month after the loop: each report overwrites
\* <tld>.json, later reports of the batch win over earlier ones.
RECURSIVE WriteDetails(_, _)
WriteDetails(dir, newReports) ==
    IF newReports = <<>> THEN dir
    ELSE WriteDetails([dir EXCEPT ![Head(newReports).tld] = Json(Head(newReports))],
                      Tail(newReports))

\* updateManifest has no try around JSON.parse.
ManifestThrows(file) == file = Malformed

\* The manifest comparator with the operands swapped: ascending.
ManifestMonthCompareAscending(a, b) == KeyCompare(a.month, b.month)

\* manifest.reports.sort((a, b) => b.month.localeCompare(a.month))
ManifestMonthCompare(a, b) == KeyCompare(b.month, a.month)

\* updateManifest that always appends and never sorts.
UpdateManifestAppend(file, month, filename, generatedAt) ==
    LET entries == IF file.st = "ok" THEN file.doc.reports ELSE <<>>
    IN  Json([reports |-> Append(entries,
                [month |-> month, filename |-> filename, generatedAt |-> generatedAt])])

\* updateManifest that leaves an existing month's entry as it is.
UpdateManifestKeep(file, month, filename, generatedAt) ==
    LET entries == IF file.st = "ok" THEN file.doc.reports ELSE <<>>
        entry == [month |-> month, filename |-> filename, generatedAt |-> generatedAt]
        existingIndex == FindIndex([i \in 1..Len(entries) |-> entries[i].month = month])
        updated == IF existingIndex # 0 THEN entries ELSE Append(entries, entry)
    IN  Json([reports |-> StableSort(updated,
                [i \in 1..Len(updated) |-> [j \in 1..Len(updated) |->
                    ManifestMonthCompare(updated[i], updated[j])]])])

UpdateManifest(file, month, filename, generatedAt) ==
    LET entries == IF file.st = "ok" THEN file.doc.reports ELSE <<>>
        entry == [month |-> month, filename |-> filename, generatedAt |-> generatedAt]
        existingIndex == FindIndex([i \in 1..Len(entries) |-> entries[i].month = month])
        updated == IF existingIndex # 0
                   THEN [entries EXCEPT ![existingIndex] = entry]
                   ELSE Append(entries, entry)
    IN  Json([reports |-> StableSort(updated,
                [i \in 1..Len(updated) |-> [j \in 1..Len(updated) |->
                    ManifestMonthCompare(updated[i], updated[j])]])])

(***************************************************************************)
(* The audit script                                                        *)
(***************************************************************************)
CountryReport(country, timestamp, metrics) ==
    [country |-> country.name, tld |-> country.tld, url |-> country.url,
     timestamp |-> timestamp, metrics |-> metrics]

NoDetails == [t \in Tlds |-> Absent]

Init ==
    /\ manifest = Absent
    /\ summaries = [m \in MonthKeys |-> Absent]
    /\ details = [m \in MonthKeys |-> NoDetails]
    /\ legacy = [m \in MonthKeys |-> Absent]
    /\ pc = "idle"
    /\ countries = <<>>
    /\ idx = 1
    /\ reports = <<>>
    /\ chrome = 0
    /\ attempts = <<>>
    /\ tick = 0
    /\ exitCode = 0
    /\ call = [fn |-> "none"]
    /\ ret = Undefined

\* Lines 6-20: load countries.json, filter by the optional tld argument.
Filtered(list, targetTld) ==
    IF targetTld = Undefined THEN list
    ELSE SelectSeq(list, LAMBDA c : c.tld = targetTld.v)

StartFails(file, targetTld) ==
    \/ file.st # "ok"
    \/ (targetTld # Undefined /\ Filtered(file.doc, targetTld) = <<>>)

Start(file, targetTld) ==
    /\ pc = "idle"
    /\ tick < MaxRuns
    /\ tick' = tick + 1
    /\ reports' = <<>>
    /\ idx' = 1
    /\ IF StartFails(file, targetTld)
       THEN /\ exitCode' = 1
            /\ pc' = "idle"
            /\ countries' = <<>>
            /\ attempts' = <<>>
       ELSE /\ pc' = "loop"
            /\ countries' = Filtered(file.doc, targetTld)
            /\ attempts' = [i \in 1..Len(Filtered(file.doc, targetTld)) |-> 0]
            /\ UNCHANGED exitCode
    /\ UNCHANGED <<chrome, storeVars, readVars>>

\* AfterSite with the push forgotten.
AfterSiteDrop(newReports) ==
    /\ reports' = reports
    /\ IF idx < Len(countries)
       THEN pc' = "delay" /\ idx' = idx
       ELSE pc' = "loop" /\ idx' = idx + 1

\* AfterSite without the pacing delay.
AfterSiteNoDelay(newReports) ==
    /\ reports' = newReports
    /\ pc' = "loop"
    /\ idx' = idx + 1

\* What follows the try/catch of one loop iteration: the pacing delay unless
\* this was the last site.
AfterSite(newReports) ==
    /\ reports' = newReports
    /\ IF idx < Len(countries)
       THEN pc' = "delay" /\ idx' = idx
       ELSE pc' = "loop" /\ idx' = idx + 1

ZeroReport == CountryReport(countries[idx], tick, ZeroMetrics)

\* chromeLauncher.launch resolves.
Launch ==
    /\ pc = "loop"
    /\ idx <= Len(countries)
    /\ chrome' = chrome + 1
    /\ attempts' = [attempts EXCEPT ![idx] = @ + 1]
    /\ pc' = "lighthouse"
    /\ UNCHANGED <<countries, idx, reports, tick, exitCode, storeVars, readVars>>

\* chromeLauncher.launch rejects: caught by the loop's try.
LaunchFails ==
    /\ pc = "loop"
    /\ idx <= Len(countries)
    /\ attempts' = [attempts EXCEPT ![idx] = @ + 1]
    /\ AfterSite(Append(reports, ZeroReport))
    /\ UNCHANGED <<countries, chrome, tick, exitCode, storeVars, readVars>>

\* lighthouse resolves with lhr; chrome is killed; extractMetrics runs.
LighthouseReturns(lhr) ==
    /\ pc = "lighthouse"
    /\ chrome' = chrome - 1
    /\ AfterSite(Append(reports,
            IF ExtractThrows(lhr) THEN ZeroReport
            ELSE CountryReport(countries[idx], tick, ExtractMetrics(lhr))))
    /\ UNCHANGED <<countries, attempts, tick, exitCode, storeVars, readVars>>

\* lighthouse rejects; chrome is killed; the error is rethrown and caught.
LighthouseThrows ==
    /\ pc = "lighthouse"
    /\ chrome' = chrome - 1
    /\ AfterSite(Append(reports, ZeroReport))
    /\ UNCHANGED <<countries, attempts, tick, exitCode, storeVars, readVars>>

Delay ==
    /\ pc = "delay"
    /\ pc' = "loop"
    /\ idx' = idx + 1
    /\ UNCHANGED <<countries, reports, chrome, attempts, tick, exitCode, storeVars, readVars>>

\* saveReport(reports) with the clock at `now`, updateManifest included, then
\* the end of main: exit 0, or exit 1 when updateManifest raised.
SaveReport(now) ==
    LET month == MonthKey(now)
        generatedAt == tick
        monthlySummary == [month |-> month, generatedAt |-> generatedAt,
                           reports |-> MergedReports(summaries[month], reports)]
    IN  /\ pc = "loop"
        /\ idx > Len(countries)
        /\ details' = [details EXCEPT ![month] = WriteDetails(@, reports)]
        /\ summaries' = [summaries EXCEPT ![month] = Json(monthlySummary)]
        /\ IF ManifestThrows(manifest)
           THEN exitCode' = 1 /\ UNCHANGED manifest
           ELSE /\ exitCode' = 0
                /\ manifest' = UpdateManifest(manifest, month, SummaryFilename(month),
                                              generatedAt)
        /\ pc' = "idle"
        /\ UNCHANGED <<legacy, countries, idx, reports, chrome, attempts, tick, readVars>>

CountriesFiles == {Absent, Malformed} \cup {Json(l) : l \in SiteLists}

\* process.argv[2]: no argument, a listed tld, or one no site has.
TldArguments == {Undefined} \cup {Str(t) : t \in Tlds \cup {"xx"}}

Next ==
    \/ \E file \in CountriesFiles, targetTld \in TldArguments :
          Start(file, targetTld)
    \/ Launch
    \/ LaunchFails
    \/ \E lhr \in LhrPool : LighthouseReturns(lhr)
    \/ LighthouseThrows
    \/ Delay
    \/ \E now \in NowPool : SaveReport(now)

Spec == Init /\ [][Next]_vars

(***************************************************************************)
(* The audit script with store documents that may get damaged between runs *)
(***************************************************************************)
\* reports/manifest.json is left unparseable (a truncated write, a bad edit).
CorruptManifest ==
    /\ pc = "idle"
    /\ manifest.st = "ok"
    /\ manifest' = Malformed
    /\ UNCHANGED <<summaries, details, legacy, procVars, readVars>>

\* reports/<month>-summary.json is left unparseable.
CorruptSummary(m) ==
    /\ pc = "idle"
    /\ summaries[m].st = "ok"
    /\ summaries' = [summaries EXCEPT ![m] = Malformed]
    /\ UNCHANGED <<manifest, details, legacy, procVars, readVars>>

NextCorrupt ==
    \/ Next
    \/ CorruptManifest
    \/ \E m \in MonthKeys : CorruptSummary(m)

SpecCorrupt == Init /\ [][NextCorrupt]_vars

(***************************************************************************)
(* updateManifest called on its own, from an absent or empty manifest      *)
(***************************************************************************)
MaxCalls == 4     \* updateManifest calls per behaviour

ManifestNowPool == {[year |-> 2023, month |-> 11], [year |-> 2024, month |-> 0],
                    [year |-> 2024, month |-> 1], [year |-> 2024, month |-> 9]}

EmptyManifest == Json([reports |-> <<>>])

InitManifest ==
    /\ manifest \in {Absent, EmptyManifest}
    /\ summaries = [m \in MonthKeys |-> Absent]
    /\ details = [m \in MonthKeys |-> NoDetails]
    /\ legacy = [m \in MonthKeys |-> Absent]
    /\ pc = "idle"
    /\ countries = <<>>
    /\ idx = 1
    /\ reports = <<>>
    /\ chrome = 0
    /\ attempts = <<>>
    /\ tick = 0
    /\ exitCode = 0
    /\ call = [fn |-> "none"]
    /\ ret = Undefined

UpdateManifestCall(now) ==
    /\ tick < MaxCalls
    /\ ~ManifestThrows(manifest)
    /\ tick' = tick + 1
    /\ call' = [fn |-> "updateManifest", month |-> MonthKey(now)]
    /\ manifest' = UpdateManifest(manifest, MonthKey(now), SummaryFilename(MonthKey(now)),
                                  tick')
    /\ UNCHANGED <<summaries, details, legacy, pc, countries, idx, reports, chrome,
                   attempts, exitCode, ret>>

NextManifest == \E now \in ManifestNowPool : UpdateManifestCall(now)

SpecManifest == InitManifest /\ [][NextManifest]_vars

(***************************************************************************)
(* saveReport run twice with the same batch on an arbitrary prior summary  *)
(***************************************************************************)
MaxBatch == 2     \* longest batch and longest prior summary

CoteNFC == [name |-> "Cote-NFC", url |-> "https://www.gouv.ci", tld |-> "ci"]
CoteNFD == [name |-> "Cote-NFD", url |-> "https://www.gouv.ci", tld |-> "ci"]

MergePool ==
    {CountryReport(Austria, 0, ZeroMetrics),
     CountryReport(Austria, 0, ExtractMetrics(LhrGood)),
     CountryReport(BelgiumAt, 0, ZeroMetrics),
     CountryReport(CoteNFC, 0, ZeroMetrics),
     CountryReport(CoteNFD, 0, ExtractMetrics(LhrGood))}

MergeNow == [year |-> 2024, month |-> 1]

PriorSummaries ==
    {Absent, Malformed} \cup
    {Json([month |-> MonthKey(MergeNow), generatedAt |-> 0,
           reports |-> [i \in DOMAIN l |-> SummaryReport(l[i])]]) :
        l \in SeqsUpTo(MergePool, MaxBatch)}

InitMerge ==
    /\ manifest = Absent
    /\ summaries \in {[m \in MonthKeys |-> IF m = MonthKey(MergeNow) THEN P ELSE Absent] :
                        P \in PriorSummaries}
    /\ details = [m \in MonthKeys |-> [t \in Tlds \cup {"ci"} |-> Absent]]
    /\ legacy = [m \in MonthKeys |-> Absent]
    /\ pc = "loop"
    /\ countries = <<>>
    /\ idx = 1
    /\ reports \in SeqsUpTo(MergePool, MaxBatch)
    /\ chrome = 0
    /\ attempts = <<>>
    /\ tick = 0
    /\ exitCode = 0
    /\ call = [fn |-> "none"]
    /\ ret = Undefined

\* The same batch is handed to saveReport again.
SaveAgain ==
    /\ pc = "idle"
    /\ tick = 0
    /\ tick' = 1
    /\ pc' = "loop"
    /\ UNCHANGED <<storeVars, countries, idx, reports, chrome, attempts, exitCode, readVars>>

NextMerge == SaveReport(MergeNow) \/ SaveAgain

SpecMerge == InitMerge /\ [][NextMerge]_vars

(***************************************************************************)
(* Read side: loaders (fetchReportManifest, fetchMonthlySummary,           *)
(* fetchMonthlyReport, fetchAllReports, fetchLatestReport)                 *)
(***************************************************************************)
\* fetch + response.json(): a 404 (not ok) and a parse error both end in the
\* function's fallback value.
FetchReportManifest == IF manifest.st = "ok" THEN manifest.doc ELSE [reports |-> <<>>]

FetchMonthlySummary(month) == IF summaries[month].st = "ok" THEN summaries[month].doc ELSE Null

\* The old format reports/<month>.json.
FetchLegacy(month) == IF legacy[month].st = "ok" THEN legacy[month].doc ELSE Null

FetchMonthlyReport(month) ==
    IF FetchMonthlySummary(month) # Null THEN FetchMonthlySummary(month)
    ELSE FetchLegacy(month)

FetchAllReports ==
    LET entries == FetchReportManifest.reports
        loaded == [i \in 1..Len(entries) |-> FetchMonthlySummary(entries[i].month)]
    IN  SelectSeq(loaded, LAMBDA report : report # Null)

FetchLatestReport ==
    LET entries == FetchReportManifest.reports
    IN  IF Len(entries) = 0 THEN Null ELSE FetchMonthlySummary(entries[1].month)

\* manifest.reports[0].month, null for an empty manifest.
GetLatestMonth ==
    LET entries == FetchReportManifest.reports
    IN  IF Len(entries) = 0 THEN Null ELSE Str(entries[1].month)

\* Store contents the loaders may meet: manifests over the known months,
\* each month with or without a summary and a legacy document.
SummaryDoc(m) == [month |-> m, generatedAt |-> 2, reports |-> <<SummaryReport(CountryReport(Austria, 2, ZeroMetrics))>>]
LegacyDoc(m) == [month |-> m, generatedAt |-> 1, reports |-> <<CountryReport(Austria, 1, ExtractMetrics(LhrGood))>>]

ManifestEntry(m) == [month |-> m, filename |-> SummaryFilename(m), generatedAt |-> 2]

MonthLists == {l \in SeqsUpTo(MonthKeys, Cardinality(MonthKeys)) :
                  \A i, j \in 1..Len(l) : i < j => KeyCompare(l[i], l[j]) > 0}

ManifestFiles ==
    {Absent, Malformed} \cup
    {Json([reports |-> [i \in DOMAIN l |-> ManifestEntry(l[i])]]) : l \in MonthLists}

InitLoad ==
    /\ manifest \in ManifestFiles
    /\ summaries \in [MonthKeys -> {Absent, Malformed} \cup {Json(SummaryDoc(m)) : m \in MonthKeys}]
    /\ \A m \in MonthKeys : summaries[m].st = "ok" => summaries[m].doc.month = m
    /\ legacy \in [MonthKeys -> {Absent, Malformed} \cup {Json(LegacyDoc(m)) : m \in MonthKeys}]
    /\ \A m \in MonthKeys : legacy[m].st = "ok" => legacy[m].doc.month = m
    /\ details = [m \in MonthKeys |-> NoDetails]
    /\ pc = "idle"
    /\ countries = <<>>
    /\ idx = 1
    /\ reports = <<>>
    /\ chrome = 0
    /\ attempts = <<>>
    /\ tick = 0
    /\ exitCode = 0
    /\ call = [fn |-> "none"]
    /\ ret = Undefined

FetchMonthlyReportCall(month) ==
    /\ call = [fn |-> "none"]
    /\ call' = [fn |-> "fetchMonthlyReport", month |-> month]
    /\ ret' = FetchMonthlyReport(month)
    /\ UNCHANGED <<storeVars, procVars>>

FetchAllReportsCall ==
    /\ call = [fn |-> "none"]
    /\ call' = [fn |-> "fetchAllReports"]
    /\ ret' = [list |-> FetchAllReports]
    /\ UNCHANGED <<storeVars, procVars>>

FetchLatestReportCall ==
    /\ call = [fn |-> "none"]
    /\ call' = [fn |-> "fetchLatestReport"]
    /\ ret' = FetchLatestReport
    /\ UNCHANGED <<storeVars, procVars>>

NextLoad ==
    \/ \E month \in MonthKeys : FetchMonthlyReportCall(month)
    \/ FetchAllReportsCall
    \/ FetchLatestReportCall

SpecLoad == InitLoad /\ [][NextLoad]_vars

(***************************************************************************)
(* Read side: Ranking Engine (calculateRankings)                           *)
(***************************************************************************)
\* typeof x === 'number'
IsNumber(x) == x \in Int

\* The sort comparator: descending by the metric, 0 when either value is
\* not a number.
RankCompare(a, b, metric) ==
    IF IsNumber(a.metrics[metric]) /\ IsNumber(b.metrics[metric])
    THEN b.metrics[metric] - a.metrics[metric]
    ELSE 0

\* The comparator with the operands swapped: ascending.
SortByMetricAscending(list, metric) ==
    StableSort(list, [i \in 1..Len(list) |-> [j \in 1..Len(list) |->
                         RankCompare(list[j], list[i], metric)]])

\* A sort that puts equal values in reverse input order.
SortByMetricTiesReversed(list, metric) ==
    StableSort(list, [i \in 1..Len(list) |-> [j \in 1..Len(list) |->
                         IF RankCompare(list[i], list[j], metric) = 0 THEN j - i
                         ELSE RankCompare(list[i], list[j], metric)]])

\* [...report.reports].sort(comparator)
SortByMetric(list, metric) ==
    StableSort(list, [i \in 1..Len(list) |-> [j \in 1..Len(list) |->
                         RankCompare(list[i], list[j], metric)]])

\* previousRank and change with the subtraction the other way round.
PreviousOfFlipped(previousReport, report, rank, metric) ==
    IF previousReport = Null THEN [previousRank |-> Undefined, change |-> Undefined]
    ELSE LET prevSorted == SortByMetric(previousReport.reports, metric)
             previousRank == FindIndex([i \in 1..Len(prevSorted) |->
                                           prevSorted[i].tld = report.tld])
         IN  IF previousRank = 0
             THEN [previousRank |-> Undefined, change |-> Undefined]
             ELSE [previousRank |-> Num(previousRank), change |-> Num(rank - previousRank)]

\* previousRank taken as the bare findIndex result, without the + 1.
PreviousOfZeroBased(previousReport, report, rank, metric) ==
    IF previousReport = Null THEN [previousRank |-> Undefined, change |-> Undefined]
    ELSE LET prevSorted == SortByMetric(previousReport.reports, metric)
             previousRank == FindIndex([i \in 1..Len(prevSorted) |->
                                           prevSorted[i].tld = report.tld])
         IN  IF previousRank = 0
             THEN [previousRank |-> Undefined, change |-> Undefined]
             ELSE [previousRank |-> Num(previousRank - 1),
                   change |-> Num(previousRank - 1 - rank)]

\* previousRank and change of one ranking: set only when a previous report
\* is given and has the tld (find on the unsorted list succeeds exactly when
\* findIndex on the sorted copy does); previousRank is findIndex + 1.
PreviousOf(previousReport, report, rank, metric) ==
    IF previousReport = Null THEN [previousRank |-> Undefined, change |-> Undefined]
    ELSE LET prevSorted == SortByMetric(previousReport.reports, metric)
             previousRank == FindIndex([i \in 1..Len(prevSorted) |->
                                           prevSorted[i].tld = report.tld])
         IN  IF previousRank = 0
             THEN [previousRank |-> Undefined, change |-> Undefined]
             ELSE [previousRank |-> Num(previousRank), change |-> Num(previousRank - rank)]

CalculateRankings(currentReport, previousReport, metric) ==
    LET sorted == SortByMetric(currentReport.reports, metric)
        Ranking(index) ==
            LET report == sorted[index]
                score == report.metrics[metric]
                prev == PreviousOf(previousReport, report, index, metric)
            IN  [country |-> report.country,
                 tld |-> report.tld,
                 rank |-> index,
                 score |-> IF IsNumber(score) THEN score ELSE 0,
                 previousRank |-> prev.previousRank,
                 change |-> prev.change]
    IN  [metric |-> metric, rankings |-> [index \in 1..Len(sorted) |-> Ranking(index)]]

MaxRanked == 3    \* longest summary handed to calculateRankings

ScoresOf(p, a, b, s) == [performance |-> p, accessibility |-> a, bestPractices |-> b, seo |-> s]

RankPool ==
    {SummaryReport(CountryReport(Austria, 0, ScoresOf(80, 90, 70, 60))),
     SummaryReport(CountryReport(Belgium, 0, ScoresOf(95, 90, 0, 61))),
     SummaryReport(CountryReport(CoteNFC, 0, ScoresOf(50, 100, 70, 62)))}

RankReports ==
    {[month |-> MonthKey(MergeNow), generatedAt |-> 0, reports |-> l] :
        l \in SeqsUpTo(RankPool, MaxRanked)}

InitRank ==
    /\ call \in {[fn |-> "calculateRankings", currentReport |-> c, previousReport |-> p,
                   metric |-> k, done |-> FALSE] :
                    c \in RankReports, p \in RankReports \cup {Null},
                    k \in {"performance", "bestPractices"}}
    /\ ret = Undefined
    /\ manifest = Absent
    /\ summaries = [m \in MonthKeys |-> Absent]
    /\ details = [m \in MonthKeys |-> NoDetails]
    /\ legacy = [m \in MonthKeys |-> Absent]
    /\ pc = "idle"
    /\ countries = <<>>
    /\ idx = 1
    /\ reports = <<>>
    /\ chrome = 0
    /\ attempts = <<>>
    /\ tick = 0
    /\ exitCode = 0

\* The call; the argument arrays are written as the function leaves them.
\* The previous summary is sorted (as a copy) only for a site it contains.
CalculateRankingsCall ==
    /\ call.fn = "calculateRankings"
    /\ ~call.done
    /\ call' = [call EXCEPT
                  !.done = TRUE,
                  !.currentReport.reports = AfterCopySort(@, SortByMetric(@, call.metric)),
                  !.previousReport =
                      IF @ = Null THEN Null
                      ELSE IF \A i \in 1..Len(call.currentReport.reports) :
                                 \A j \in 1..Len(@.reports) :
                                    @.reports[j].tld # call.currentReport.reports[i].tld
                      THEN @
                      ELSE [@ EXCEPT !.reports =
                                AfterCopySort(@, SortByMetric(@, call.metric))]]
    /\ ret' = CalculateRankings(call.currentReport, call.previousReport, call.metric)
    /\ UNCHANGED <<storeVars, procVars>>

SpecRank == InitRank /\ [][CalculateRankingsCall]_vars

(***************************************************************************)
(* Read side: Historical Series Builder (getCountryHistoricalData)         *)
(***************************************************************************)
MonthCompare(a, b) == KeyCompare(a.month, b.month)

\* report.reports.find(r => r.tld === tld), Undefined when there is none.
FindByTld(list, tld) ==
    LET index == FindIndex([i \in 1..Len(list) |-> list[i].tld = tld])
    IN  IF index = 0 THEN Undefined ELSE list[index]

\* [...reports].sort((a, b) => a.month.localeCompare(b.month))
SortByMonth(monthlyReports) ==
    StableSort(monthlyReports,
               [i \in 1..Len(monthlyReports) |-> [j \in 1..Len(monthlyReports) |->
                   MonthCompare(monthlyReports[i], monthlyReports[j])]])

GetCountryHistoricalData(monthlyReports, tld) ==
    LET sortedReports == SortByMonth(monthlyReports)
        found == [i \in 1..Len(sortedReports) |-> FindByTld(sortedReports[i].reports, tld)]
        countryReports == SelectSeq(found, LAMBDA r : r # Undefined)
        Series(metric) ==
            [i \in 1..Len(countryReports) |->
                [month |-> sortedReports[i].month,
                 value |-> countryReports[i].metrics[metric]]]
    IN  IF Len(countryReports) = 0 THEN Null
        ELSE [country |-> countryReports[1].country,
              tld |-> countryReports[1].tld,
              performance |-> Series("performance"),
              accessibility |-> Series("accessibility"),
              bestPractices |-> Series("bestPractices"),
              seo |-> Series("seo")]

MaxMonths == 3    \* monthly summaries handed to getCountryHistoricalData

\* Month k of 2024 (0-based, as getMonth returns it).
HistNow(k) == [year |-> 2024, month |-> k]

\* The summary of month k: the target site scores k + 1 in every metric
\* there, listed after another site.
HistReport(k, present) ==
    [month |-> MonthKey(HistNow(k)), generatedAt |-> k,
     reports |-> <<SummaryReport(CountryReport(Belgium, k, ZeroMetrics))>> \o
                 (IF present
                  THEN <<SummaryReport(CountryReport(Austria, k,
                                                     ScoresOf(k + 1, k + 1, k + 1, k + 1)))>>
                  ELSE <<>>)]

\* Collections of summaries with distinct month keys, in any order.
HistCollections ==
    {l \in SeqsUpTo({HistReport(k, present) : k \in 0..(MaxMonths - 1), present \in BOOLEAN},
                    MaxMonths) :
        \A i, j \in 1..Len(l) : i # j => l[i].month # l[j].month}

InitHist ==
    /\ call \in {[fn |-> "getCountryHistoricalData", reports |-> l, tld |-> t, done |-> FALSE] :
                    l \in HistCollections, t \in {"at", "ci"}}
    /\ ret = Undefined
    /\ manifest = Absent
    /\ summaries = [m \in MonthKeys |-> Absent]
    /\ details = [m \in MonthKeys |-> NoDetails]
    /\ legacy = [m \in MonthKeys |-> Absent]
    /\ pc = "idle"
    /\ countries = <<>>
    /\ idx = 1
    /\ reports = <<>>
    /\ chrome = 0
    /\ attempts = <<>>
    /\ tick = 0
    /\ exitCode = 0

GetCountryHistoricalDataCall ==
    /\ call.fn = "getCountryHistoricalData"
    /\ ~call.done
    /\ call' = [call EXCEPT
                  !.done = TRUE,
                  !.reports = AfterCopySort(@, SortByMonth(@))]
    /\ ret' = GetCountryHistoricalData(call.reports, call.tld)
    /\ UNCHANGED <<storeVars, procVars>>

SpecHist == InitHist /\ [][GetCountryHistoricalDataCall]_vars

(***************************************************************************)
(* Read side: Aggregate Scorer (calculateAverageScores)                    *)
(***************************************************************************)
\* report.reports.reduce(...): the running totals of the four metrics.
RECURSIVE Totals(_, _)
Totals(list, acc) ==
    IF list = <<>> THEN acc
    ELSE Totals(Tail(list),
                [performance |-> acc.performance + Head(list).metrics.performance,
                 accessibility |-> acc.accessibility + Head(list).metrics.accessibility,
                 bestPractices |-> acc.bestPractices + Head(list).metrics.bestPractices,
                 seo |-> acc.seo + Head(list).metrics.seo])

\* Math.round rounding down instead of to nearest.
AverageFloor(total, count) == IF count = 0 THEN NaN ELSE total \div count

\* Math.round(total / count); 0 / 0 is NaN and stays NaN.
Average(total, count) == IF count = 0 THEN NaN ELSE MathRound(total, count)

CalculateAverageScores(report) ==
    LET totals == Totals(report.reports, ZeroMetrics)
        count == Len(report.reports)
    IN  [performance |-> Average(totals.performance, count),
         accessibility |-> Average(totals.accessibility, count),
         bestPractices |-> Average(totals.bestPractices, count),
         seo |-> Average(totals.seo, count)]

MaxAveraged == 3  \* longest summary handed to calculateAverageScores

AveragePool ==
    {SummaryReport(CountryReport(Austria, 0, ScoresOf(80, 90, 0, 100))),
     SummaryReport(CountryReport(Belgium, 0, ScoresOf(90, 80, 1, 100))),
     SummaryReport(CountryReport(CoteNFC, 0, ScoresOf(81, 0, 100, 99))),
     SummaryReport(CountryReport(CoteNFD, 0, ScoresOf(80, 81, 0, 0))),
     SummaryReport(CountryReport(BelgiumAt, 0, ZeroMetrics))}

AverageReports ==
    {[month |-> MonthKey(MergeNow), generatedAt |-> 0, reports |-> l] :
        l \in SeqsUpTo(AveragePool, MaxAveraged)}

InitAverage ==
    /\ call \in {[fn |-> "calculateAverageScores", report |-> r, done |-> FALSE] :
                    r \in AverageReports}
    /\ ret = Undefined
    /\ manifest = Absent
    /\ summaries = [m \in MonthKeys |-> Absent]
    /\ details = [m \in MonthKeys |-> NoDetails]
    /\ legacy = [m \in MonthKeys |-> Absent]
    /\ pc = "idle"
    /\ countries = <<>>
    /\ idx = 1
    /\ reports = <<>>
    /\ chrome = 0
    /\ attempts = <<>>
    /\ tick = 0
    /\ exitCode = 0

CalculateAverageScoresCall ==
    /\ call.fn = "calculateAverageScores"
    /\ ~call.done
    /\ call' = [call EXCEPT !.done = TRUE]
    /\ ret' = CalculateAverageScores(call.report)
    /\ UNCHANGED <<storeVars, procVars>>

SpecAverage == InitAverage /\ [][CalculateAverageScoresCall]_vars

(***************************************************************************)
(* extractMetrics called on its own, on raw results of every shape         *)
(***************************************************************************)
MaxRefs == 3      \* longest auditRefs list of the category under test

\* The audit lookup: one audit per combination the inclusion rule and the
\* severity rule tell apart.
ExtractAudits ==
    [id \in {"uses-http2", "largest-contentful-paint", "first-contentful-paint",
             "color-contrast", "total-blocking-time", "speed-index", "image-alt",
             "doctype", "viewport", "charset", "meta-description"} |->
        CASE id = "uses-http2" -> Audit(Num(0), "binary", FALSE, Undefined)
          [] id = "largest-contentful-paint" -> Audit(Num(0), "numeric", TRUE, Num(2500))
          [] id = "first-contentful-paint" -> Audit(Num(450), "numeric", TRUE, Num(1200))
          [] id = "color-contrast" -> Audit(Num(500), "binary", FALSE, Undefined)
          [] id = "total-blocking-time" -> Audit(Num(990), "numeric", TRUE, Num(0))
          [] id = "speed-index" -> Audit(Num(1000), "numeric", TRUE, Num(900))
          [] id = "image-alt" -> Audit(Null, "informative", TRUE, Undefined)
          [] id = "doctype" -> Audit(Null, "informative", FALSE, Undefined)
          [] id = "viewport" -> Audit(Null, "notApplicable", TRUE, Undefined)
          [] id = "charset" -> Audit(Num(1000), "informative", TRUE, Undefined)
          [] id = "meta-description" -> Audit(Undefined, "manual", FALSE, Undefined)]

\* An auditRefs entry without a weight.
RefNoWeight(id) == [id |-> id, weight |-> Undefined]

RefPool ==
    {Ref("uses-http2", 3), Ref("largest-contentful-paint", 10),
     Ref("first-contentful-paint", 10), Ref("color-contrast", 3),
     Ref("total-blocking-time", 0), Ref("speed-index", 10), Ref("image-alt", 3),
     Ref("doctype", 1), Ref("viewport", 1), RefNoWeight("charset"),
     Ref("meta-description", 1), Ref("no-such-audit", 1)}

\* Raw category scores in thousandths, or not set.  The numbers stay clear
\* of exact halves of a hundredth, which a binary fraction cannot hold.
ScorePool ==
    {Null, Undefined, Num(0), Num(4), Num(6), Num(284), Num(286), Num(500),
     Num(994), Num(996), Num(1000)}

\* A category object without the auditRefs property.
CategoryNoRefs(score) == [score |-> score]

ExtractCategories(p, s, refs) ==
    [c \in CategoryIds |->
        CASE c = "performance" -> Category(p, refs)
          [] c = "accessibility" ->
                Category(Num(900), <<Ref("image-alt", 3), Ref("color-contrast", 3),
                                     Ref("uses-http2", 3)>>)
          [] c = "best-practices" -> CategoryNoRefs(Num(700))
          [] c = "seo" -> Category(s, <<>>)]

\* The raw results extractMetrics is applied to: every auditRefs list of
\* the performance category, every pair of performance and seo scores, and
\* results that lack one category.
ExtractInputs ==
    {[categories |-> ExtractCategories(Num(800), Num(600), refs), audits |-> ExtractAudits] :
        refs \in SeqsUpTo(RefPool, MaxRefs)}
    \cup
    {[categories |-> ExtractCategories(p, s, <<>>), audits |-> ExtractAudits] :
        p \in ScorePool, s \in {Null, Undefined, Num(600)}}
    \cup
    {[categories |-> [c \in CategoryIds \ {missing} |->
                         ExtractCategories(Num(800), Num(600), <<>>)[c]],
      audits |-> ExtractAudits] : missing \in CategoryIds}

\* The TypeError extractMetrics raises on an absent category.
TypeError == [t |-> "TypeError"]

InitExtract ==
    /\ call \in {[fn |-> "extractMetrics", lhr |-> l, done |-> FALSE] : l \in ExtractInputs}
    /\ ret = Undefined
    /\ manifest = Absent
    /\ summaries = [m \in MonthKeys |-> Absent]
    /\ details = [m \in MonthKeys |-> NoDetails]
    /\ legacy = [m \in MonthKeys |-> Absent]
    /\ pc = "idle"
    /\ countries = <<>>
    /\ idx = 1
    /\ reports = <<>>
    /\ chrome = 0
    /\ attempts = <<>>
    /\ tick = 0
    /\ exitCode = 0

ExtractMetricsCall ==
    /\ call.fn = "extractMetrics"
    /\ ~call.done
    /\ call' = [call EXCEPT !.done = TRUE]
    /\ ret' = IF ExtractThrows(call.lhr) THEN TypeError ELSE ExtractMetrics(call.lhr)
    /\ UNCHANGED <<storeVars, procVars>>

SpecExtract == InitExtract /\ [][ExtractMetricsCall]_vars

(***************************************************************************)
(* updateManifest called with arbitrary arguments, repeated ones included  *)
(***************************************************************************)
MaxUpserts == 3   \* updateManifest calls per behaviour

\* The old single-file name of a month's report.
LegacyFilename(month) == [month |-> month, suffix |-> ".json"]

UpsertMonths == {MonthKey(now) : now \in {[year |-> 2023, month |-> 11],
                                          [year |-> 2024, month |-> 1],
                                          [year |-> 2024, month |-> 9]}}

UpsertFilenames(month) == {SummaryFilename(month), LegacyFilename(month)}

UpsertTimes == {1, 2}

\* `again` records that the call before this one had the same arguments.
UpdateManifestWith(month, filename, generatedAt) ==
    /\ tick < MaxUpserts
    /\ ~ManifestThrows(manifest)
    /\ tick' = tick + 1
    /\ call' = [fn |-> "updateManifest", month |-> month, filename |-> filename,
                generatedAt |-> generatedAt,
                again |-> /\ call.fn = "updateManifest"
                          /\ call.month = month
                          /\ call.filename = filename
                          /\ call.generatedAt = generatedAt]
    /\ manifest' = UpdateManifest(manifest, month, filename, generatedAt)
    /\ UNCHANGED <<summaries, details, legacy, pc, countries, idx, reports, chrome,
                   attempts, exitCode, ret>>

NextUpsert ==
    \E month \in UpsertMonths, generatedAt \in UpsertTimes :
        \E filename \in UpsertFilenames(month) :
            UpdateManifestWith(month, filename, generatedAt)

SpecUpsert == InitManifest /\ [][NextUpsert]_vars

(***************************************************************************)
(* Read side: fetchAllReports step by step, the summary fetches settling   *)
(* in any order                                                            *)
(***************************************************************************)
Pending == [t |-> "pending"]         \* a promise that has not settled

\* The array Promise.all resolves with, read in the order the promises
\* settled instead of the order they were given in.
ValuesInSettleOrder(results, order) == [k \in 1..Len(order) |-> results[order[k]]]

\* The array Promise.all resolves with: the value of each promise at the
\* position the promise was given at, whatever order they settled in.
PromiseAllValues(results, order) == results

\* reports.filter(report => report !== null)
FilterLoaded(list) == SelectSeq(list, LAMBDA report : report # Null)

\* fetchAllReports is called: the manifest fetch is under way.
FetchAllBegins ==
    /\ call = [fn |-> "none"]
    /\ call' = [fn |-> "fetchAllReports", stage |-> "manifest", months |-> <<>>,
                results |-> <<>>, order |-> <<>>]
    /\ UNCHANGED <<ret, storeVars, procVars>>

\* fetchReportManifest settles; manifest.reports.map starts one
\* fetchMonthlySummary per entry.
ManifestSettles ==
    /\ call.fn = "fetchAllReports"
    /\ call.stage = "manifest"
    /\ LET entries == FetchReportManifest.reports
       IN  call' = [call EXCEPT !.stage = "summaries",
                                !.months = [i \in 1..Len(entries) |-> entries[i].month],
                                !.results = [i \in 1..Len(entries) |-> Pending]]
    /\ UNCHANGED <<ret, storeVars, procVars>>

\* The fetchMonthlySummary of position i settles: with the document, or
\* with null when it is missing or unparseable.
SummarySettles(i) ==
    /\ call.fn = "fetchAllReports"
    /\ call.stage = "summaries"
    /\ i \in 1..Len(call.results)
    /\ call.results[i] = Pending
    /\ call' = [call EXCEPT !.results[i] = FetchMonthlySummary(call.months[i]),
                            !.order = Append(@, i)]
    /\ UNCHANGED <<ret, storeVars, procVars>>

\* Promise.all resolves once every fetch has settled; the nulls are
\* filtered out and the list is returned.
FetchAllReturns ==
    /\ call.fn = "fetchAllReports"
    /\ call.stage = "summaries"
    /\ \A i \in 1..Len(call.results) : call.results[i] # Pending
    /\ call' = [call EXCEPT !.stage = "done"]
    /\ ret' = [list |-> FilterLoaded(PromiseAllValues(call.results, call.order))]
    /\ UNCHANGED <<storeVars, procVars>>

NextFetchAll ==
    \/ FetchAllBegins
    \/ ManifestSettles
    \/ \E i \in 1..Cardinality(MonthKeys) : SummarySettles(i)
    \/ FetchAllReturns

SpecFetchAll == InitLoad /\ [][NextFetchAll]_vars

(***************************************************************************)
(* Read side: the three pure functions together, each called once on its   *)
(* own arguments                                                           *)
(***************************************************************************)
InitPure == InitRank \/ InitHist \/ InitAverage

NextPure ==
    \/ CalculateRankingsCall
    \/ GetCountryHistoricalDataCall
    \/ CalculateAverageScoresCall

SpecPure == InitPure /\ [][NextPure]_vars

(***************************************************************************)
(* The dashboard home page (app/page.tsx) loading the store the audit      *)
(* script has written                                                      *)
(***************************************************************************)
\* The "No data available" page.
NoData == [t |-> "no-data"]

\* Home: loadData fetches the latest report; the render after it shows the
\* error page when there is none and calls calculateAverageScores
\* otherwise.  `averaged` records that the call was made.
HomeRenders ==
    /\ pc = "idle"
    /\ call = [fn |-> "none"]
    /\ LET latestReport == FetchLatestReport
       IN  /\ call' = [fn |-> "Home", latestReport |-> latestReport,
                       averaged |-> latestReport # Null]
           /\ ret' = IF latestReport = Null THEN NoData
                     ELSE CalculateAverageScores(latestReport)
    /\ UNCHANGED <<storeVars, procVars>>

\* A step of the audit script, while the page has not been opened.
ScriptStep == call = [fn |-> "none"] /\ Next

NextHome == ScriptStep \/ HomeRenders

SpecHome == Init /\ [][NextHome]_vars

(***************************************************************************)
(* saveReport write by write, with runs that may abort between two writes  *)
(***************************************************************************)
MaxSaves == 2     \* saveReport runs per behaviour

\* The batches handed to saveReport.
SaveBatches ==
    {<<>>,
     <<CountryReport(Austria, 0, ZeroMetrics)>>,
     <<CountryReport(Belgium, 0, ExtractMetrics(LhrGood))>>,
     <<CountryReport(Austria, 0, ExtractMetrics(LhrGood)),
       CountryReport(Belgium, 0, ZeroMetrics)>>}

\* The stages of saveReport with the manifest updated before the summary
\* is written.
StageAfterManifestFirst(stage) ==
    CASE stage = "details" -> "manifest"
      [] stage = "manifest" -> "summary"
      [] stage = "summary" -> "idle"

\* The stages of saveReport in program order: the loop that writes the
\* detail files, the summary write, updateManifest, return.
StageAfter(stage) ==
    CASE stage = "details" -> "summary"
      [] stage = "summary" -> "manifest"
      [] stage = "manifest" -> "idle"

\* saveReport(newReports) is entered with the clock at `now`.
SaveBegins(now, newReports) ==
    /\ pc = "idle"
    /\ tick < MaxSaves
    /\ tick' = tick + 1
    /\ pc' = "details"
    /\ idx' = 1
    /\ reports' = newReports
    /\ call' = [fn |-> "saveReport", month |-> MonthKey(now), generatedAt |-> tick']
    /\ UNCHANGED <<storeVars, countries, chrome, attempts, exitCode, ret>>

\* One iteration of the merge loop: fs.writeFileSync(detailPath, ...).
WriteDetail ==
    /\ pc = "details"
    /\ idx <= Len(reports)
    /\ details' = [details EXCEPT ![call.month][reports[idx].tld] = Json(reports[idx])]
    /\ idx' = idx + 1
    /\ UNCHANGED <<manifest, summaries, legacy, pc, countries, reports, chrome, attempts,
                   tick, exitCode, readVars>>

\* The loop is over.
DetailsDone ==
    /\ pc = "details"
    /\ idx > Len(reports)
    /\ pc' = StageAfter("details")
    /\ UNCHANGED <<storeVars, countries, idx, reports, chrome, attempts, tick, exitCode,
                   readVars>>

\* fs.writeFileSync(summaryPath, ...).  The existing summary was read when
\* saveReport began; no other writer touches it in between.
WriteSummary ==
    /\ pc = "summary"
    /\ summaries' = [summaries EXCEPT ![call.month] =
                        Json([month |-> call.month, generatedAt |-> call.generatedAt,
                              reports |-> MergedReports(@, reports)])]
    /\ pc' = StageAfter("summary")
    /\ UNCHANGED <<manifest, details, legacy, countries, idx, reports, chrome, attempts,
                   tick, exitCode, readVars>>

\* updateManifest(month, summaryFilename, generatedAt).
WriteManifest ==
    /\ pc = "manifest"
    /\ manifest' = UpdateManifest(manifest, call.month, SummaryFilename(call.month),
                                  call.generatedAt)
    /\ pc' = StageAfter("manifest")
    /\ UNCHANGED <<summaries, details, legacy, countries, idx, reports, chrome, attempts,
                   tick, exitCode, readVars>>

\* saveReport has returned: main ends with exit code 0.
SaveEnds ==
    /\ pc = "idle"
    /\ call.fn = "saveReport"
    /\ call' = [fn |-> "none"]
    /\ exitCode' = 0
    /\ UNCHANGED <<storeVars, pc, countries, idx, reports, chrome, attempts, tick, ret>>

\* The run ends between two writes: a write raises into main's catch, or
\* the process is killed.
SaveAborts ==
    /\ pc \in {"details", "summary", "manifest"}
    /\ pc' = "idle"
    /\ call' = [fn |-> "none"]
    /\ exitCode' = 1
    /\ UNCHANGED <<storeVars, countries, idx, reports, chrome, attempts, tick, ret>>

NextWrites ==
    \/ \E now \in NowPool, newReports \in SaveBatches : SaveBegins(now, newReports)
    \/ WriteDetail
    \/ DetailsDone
    \/ WriteSummary
    \/ WriteManifest
    \/ SaveEnds
    \/ SaveAborts

SpecWrites == Init /\ [][NextWrites]_vars

(***************************************************************************)
(* Country page (CountryAuditClient): loads started by the tld prop        *)
(***************************************************************************)
MaxLoads == 3     \* loadData calls per behaviour

\* fetchCountryDetail(month, tld): null when the file is absent or unreadable.
FetchCountryDetail(month, tld) ==
    IF details[month][tld].st = "ok" THEN details[month][tld].doc ELSE Null

ClientMonth == MonthKey(MergeNow)

ClientDetail(country) == Json(CountryReport(country, 2, ExtractMetrics(LhrGood)))

\* The two pages the component renders once loading is false.
ErrorPage(text) == [page |-> "error", text |-> text]

ReportPage(countryReport) == [page |-> "report", countryReport |-> countryReport]

\* useState initial values, and the first loadData started by the effect.
Component(tld) ==
    [fn |-> "CountryAuditClient", tld |-> tld,
     latestReport |-> Null, countryReport |-> Null, loading |-> TRUE, error |-> Null,
     loads |-> <<[tld |-> tld, at |-> "import", latestMonth |-> Null, outcome |-> Pending,
                  overlaps |-> FALSE]>>]

InitClient ==
    /\ manifest \in {Absent,
                     Json([reports |-> <<[month |-> ClientMonth,
                                          filename |-> SummaryFilename(ClientMonth),
                                          generatedAt |-> 2]>>])}
    /\ summaries = [m \in MonthKeys |-> Absent]
    /\ \E a \in {Absent, ClientDetail(Austria)}, b \in {Absent, ClientDetail(Belgium)} :
          details = [m \in MonthKeys |->
                        IF m = ClientMonth THEN [t \in Tlds |-> IF t = "at" THEN a ELSE b]
                        ELSE NoDetails]
    /\ legacy = [m \in MonthKeys |-> Absent]
    /\ pc = "idle"
    /\ countries = <<>>
    /\ idx = 1
    /\ reports = <<>>
    /\ chrome = 0
    /\ attempts = <<>>
    /\ tick = 0
    /\ exitCode = 0
    /\ call \in {Component(tld) : tld \in Tlds}
    /\ ret = Undefined

\* The tld prop changes: the effect runs again and starts another loadData.
\* Component state is kept; nothing cancels the earlier loads.  `overlaps`
\* records whether an earlier load was in flight at that moment.
TldChanges(tld) ==
    /\ call.fn = "CountryAuditClient"
    /\ Len(call.loads) < MaxLoads
    /\ tld # call.tld
    /\ call' = [call EXCEPT
                  !.tld = tld,
                  !.loads = Append(@, [tld |-> tld, at |-> "import", latestMonth |-> Null,
                                       outcome |-> Pending,
                                       overlaps |-> \E j \in 1..Len(@) : @[j].at # "done"])]
    /\ UNCHANGED <<storeVars, procVars, ret>>

\* await import('@/utils/dataLoader') resolves.
ImportSettles(i) ==
    /\ call.fn = "CountryAuditClient"
    /\ i \in 1..Len(call.loads)
    /\ call.loads[i].at = "import"
    /\ call' = [call EXCEPT !.loads[i].at = "month"]
    /\ UNCHANGED <<storeVars, procVars, ret>>

\* await import(...) rejects: catch, then finally.
ImportFails(i) ==
    /\ call.fn = "CountryAuditClient"
    /\ i \in 1..Len(call.loads)
    /\ call.loads[i].at = "import"
    /\ call' = [call EXCEPT
                  !.error = Str("Failed to load data"),
                  !.loading = FALSE,
                  !.loads[i].at = "done",
                  !.loads[i].outcome = ErrorPage(Str("Failed to load data"))]
    /\ UNCHANGED <<storeVars, procVars, ret>>

\* await getLatestMonth() resolves.
MonthSettles(i) ==
    /\ call.fn = "CountryAuditClient"
    /\ i \in 1..Len(call.loads)
    /\ call.loads[i].at = "month"
    /\ IF GetLatestMonth = Null
       THEN call' = [call EXCEPT
                       !.error = Str("No report data available"),
                       !.loading = FALSE,
                       !.loads[i].at = "done",
                       !.loads[i].outcome = ErrorPage(Str("No report data available"))]
       ELSE call' = [call EXCEPT !.loads[i].at = "detail",
                                 !.loads[i].latestMonth = GetLatestMonth]
    /\ UNCHANGED <<storeVars, procVars, ret>>

\* await fetchCountryDetail(latestMonth, tld) resolves; tld is the prop
\* value the effect closed over.
DetailSettles(i) ==
    /\ call.fn = "CountryAuditClient"
    /\ i \in 1..Len(call.loads)
    /\ call.loads[i].at = "detail"
    /\ LET load == call.loads[i]
           countryDetail == FetchCountryDetail(load.latestMonth.v, load.tld)
       IN  IF countryDetail = Null
           THEN call' = [call EXCEPT
                           !.error = Str("Country not found or audit data not available"),
                           !.loading = FALSE,
                           !.loads[i].at = "done",
                           !.loads[i].outcome =
                               ErrorPage(Str("Country not found or audit data not available"))]
           ELSE call' = [call EXCEPT
                           !.countryReport = countryDetail,
                           !.latestReport = [month |-> load.latestMonth.v, generatedAt |-> countryDetail.timestamp, reports |-> <<countryDetail>>],
                           !.loading = FALSE,
                           !.loads[i].at = "done",
                           !.loads[i].outcome = ReportPage(countryDetail)]
    /\ UNCHANGED <<storeVars, procVars, ret>>

\* What the component renders.
Rendered ==
    IF call.loading THEN [page |-> "loading"]
    ELSE IF call.error # Null \/ call.countryReport = Null \/ call.latestReport = Null
    THEN ErrorPage(IF call.error # Null THEN call.error ELSE Str("No data available"))
    ELSE ReportPage(call.countryReport)

NextClient ==
    \/ \E tld \in Tlds : TldChanges(tld)
    \/ \E i \in 1..MaxLoads : ImportSettles(i)
    \/ \E i \in 1..MaxLoads : ImportFails(i)
    \/ \E i \in 1..MaxLoads : MonthSettles(i)
    \/ \E i \in 1..MaxLoads : DetailSettles(i)

SpecClient == InitClient /\ [][NextClient]_vars

(***************************************************************************)
(* Claims                                                                  *)
(***************************************************************************)
ManifestEntries == IF manifest.st = "ok" THEN manifest.doc.reports ELSE <<>>

SummaryEntries(m) == IF summaries[m].st = "ok" THEN summaries[m].doc.reports ELSE <<>>

Scores(metrics) == [k \in Metrics |-> metrics[k]]

\* C2: the persisted monthly summary never contains two entries with the
\* same site identifier (tld).
C2_UniqueTlds ==
    \A m \in MonthKeys :
        \A i, j \in 1..Len(SummaryEntries(m)) :
            i # j => SummaryEntries(m)[i].tld # SummaryEntries(m)[j].tld

\* C4: after any sequence of updateManifest calls the manifest has at most
\* one entry per month key and is sorted strictly descending by month key.
C4_ManifestSortedUnique ==
    \A i, j \in 1..Len(ManifestEntries) :
        i < j => KeyCompare(ManifestEntries[i].month, ManifestEntries[j].month) > 0

\* C4 witness: three different months were upserted, one of them twice, the
\* last call for a month older than the newest entry.
C4_Witness ==
    /\ Len(ManifestEntries) = 2
    /\ tick = 3
    /\ call.fn = "updateManifest"
    /\ call.month = ManifestEntries[2].month

\* C7: auditAllCountries attempts each site exactly once and returns one
\* report per site in site-list order; a failed site (audit source failing
\* or extractMetrics raising) gets four zero scores without issue lists or
\* timing, and the reports already collected are left alone.
SiteFails ==
    \/ LaunchFails
    \/ LighthouseThrows
    \/ \E lhr \in LhrPool : ExtractThrows(lhr) /\ LighthouseReturns(lhr)

SiteEnds == SiteFails \/ \E lhr \in LhrPool : LighthouseReturns(lhr)

C7_RunShape ==
    /\ Len(reports) <= Len(countries)
    /\ \A k \in 1..Len(reports) :
          /\ reports[k].country = countries[k].name
          /\ reports[k].tld = countries[k].tld
          /\ reports[k].url = countries[k].url
    /\ \A k \in 1..Len(attempts) : attempts[k] <= 1
    /\ (pc = "loop" /\ idx > Len(countries)) =>
          /\ Len(reports) = Len(countries)
          /\ \A k \in 1..Len(attempts) : attempts[k] = 1

C7_SiteStep ==
    /\ SiteFails =>
          /\ Len(reports') = Len(reports) + 1
          /\ DOMAIN reports'[Len(reports')].metrics = Metrics
          /\ \A k \in Metrics : reports'[Len(reports')].metrics[k] = 0
    /\ SiteEnds =>
          /\ Len(reports') = Len(reports) + 1
          /\ \A k \in 1..Len(reports) : reports'[k] = reports[k]

C7_OneReportPerSite == []C7_RunShape /\ [][C7_SiteStep]_vars

\* C7 witness: a two-site run has ended with the first site failed and the
\* second audited.
C7_Witness ==
    /\ pc = "loop"
    /\ Len(countries) = 2
    /\ idx > Len(countries)
    /\ Len(reports) = 2
    /\ reports[1].metrics = ZeroMetrics
    /\ "audits" \in DOMAIN reports[2].metrics

\* C8: every entry of a month's persisted summary has a detail document at
\* reports/<month>/<tld>.json whose four scores equal the entry's.
C8_DetailAgrees ==
    \A m \in MonthKeys :
        \A i \in 1..Len(SummaryEntries(m)) :
            LET e == SummaryEntries(m)[i]
            IN  /\ details[m][e.tld].st = "ok"
                /\ Scores(details[m][e.tld].doc.metrics) = Scores(e.metrics)

\* C9: a saveReport run that reads an unparseable summary or manifest treats
\* it as missing: it does not raise, and it leaves a summary and a manifest
\* that contain the batch's month.
ManifestHasMonth(file, m) ==
    /\ file.st = "ok"
    /\ \E i \in 1..Len(file.doc.reports) : file.doc.reports[i].month = m

C9_SaveStep ==
    \A now \in NowPool :
        (SaveReport(now) /\ (manifest = Malformed \/ summaries[MonthKey(now)] = Malformed))
        => /\ exitCode' = 0
           /\ summaries'[MonthKey(now)].st = "ok"
           /\ summaries'[MonthKey(now)].doc.month = MonthKey(now)
           /\ ManifestHasMonth(manifest', MonthKey(now))

C9_MalformedTreatedAsMissing == [][C9_SaveStep]_vars

\* C3: merging the same batch a second time leaves the summary's ordered
\* entries and the detail documents as the first merge left them.
C3_SecondSave ==
    (SaveReport(MergeNow) /\ tick = 1) =>
        /\ SummaryEntries(MonthKey(MergeNow))' = SummaryEntries(MonthKey(MergeNow))
        /\ details' = details

C3_MergeIdempotent == [][C3_SecondSave]_vars

\* C3 witness: the second save is done; the batch replaced one entry of the
\* prior summary and appended another.
C3_Witness ==
    /\ pc = "idle"
    /\ tick = 1
    /\ Len(reports) = 2
    /\ reports[1].country # reports[2].country
    /\ Len(SummaryEntries(MonthKey(MergeNow))) = 3
    /\ summaries[MonthKey(MergeNow)].doc.generatedAt = 1

\* C10: for a month listed in the manifest whose summary is absent and whose
\* legacy document exists, fetchMonthlyReport returns the legacy document,
\* fetchAllReports includes it and fetchLatestReport returns it when that
\* month is the manifest's first.
LegacyOnly(m) ==
    /\ \E i \in 1..Len(ManifestEntries) : ManifestEntries[i].month = m
    /\ summaries[m] = Absent
    /\ legacy[m].st = "ok"

C10_LegacyFallback ==
    \A m \in MonthKeys :
        LegacyOnly(m) =>
            /\ (call = [fn |-> "fetchMonthlyReport", month |-> m]) => ret = legacy[m].doc
            /\ (call.fn = "fetchAllReports") =>
                  \E i \in 1..Len(ret.list) : ret.list[i] = legacy[m].doc
            /\ (call.fn = "fetchLatestReport" /\ ManifestEntries[1].month = m) =>
                  ret = legacy[m].doc

\* C5: for a current summary of N sites calculateRankings returns N rankings
\* that are a permutation of the input sites, rank equal to position (ranks
\* exactly 1..N), score equal to the site's metric value, scores
\* non-increasing as rank increases; N = 0 gives the empty list.
Called(fn) == call.fn = fn /\ call.done

SiteOf(r) == <<r.country, r.tld>>

Count(hits) == Cardinality({i \in 1..Len(hits) : hits[i]})

C5_RanksArePermutation ==
    Called("calculateRankings") =>
        LET input == call.currentReport.reports
            out == ret.rankings
        IN  /\ Len(out) = Len(input)
            /\ \A i \in 1..Len(out) : out[i].rank = i
            /\ \A i \in 1..Len(input) :
                  Count([k \in 1..Len(out) |->
                            /\ SiteOf(out[k]) = SiteOf(input[i])
                            /\ out[k].score = input[i].metrics[call.metric]])
                  = Count([k \in 1..Len(input) |->
                            /\ SiteOf(input[k]) = SiteOf(input[i])
                            /\ input[k].metrics[call.metric] = input[i].metrics[call.metric]])
            /\ \A i, j \in 1..Len(out) : i < j => out[i].score >= out[j].score

\* C5 witness: three sites were ranked and the input's last site came first.
C5_Witness ==
    /\ Called("calculateRankings")
    /\ Len(ret.rankings) = 3
    /\ ret.rankings[1].tld = call.currentReport.reports[3].tld
    /\ ret.rankings[1].score > ret.rankings[2].score
    /\ ret.rankings[2].score > ret.rankings[3].score

\* C6: with a previous summary that contains the site's identifier,
\* previousRank is the site's rank when the previous summary alone is ranked
\* by the same metric and change = previousRank - rank; without a previous
\* summary, or when the site is absent from it, both are undefined.
RankAlone(report, tld, metric) ==
    LET alone == CalculateRankings(report, Null, metric).rankings
    IN  CHOOSE i \in 1..Len(alone) :
            alone[i].tld = tld /\ \A j \in 1..(i - 1) : alone[j].tld # tld

InPrevious(tld) ==
    /\ call.previousReport # Null
    /\ \E i \in 1..Len(call.previousReport.reports) : call.previousReport.reports[i].tld = tld

C6_PreviousRankAndChange ==
    Called("calculateRankings") =>
        \A i \in 1..Len(ret.rankings) :
            LET r == ret.rankings[i]
            IN  IF InPrevious(r.tld)
                THEN /\ r.previousRank = Num(RankAlone(call.previousReport, r.tld, call.metric))
                     /\ r.change = Num(r.previousRank.v - r.rank)
                ELSE /\ r.previousRank = Undefined
                     /\ r.change = Undefined

\* C6 witness: one site moved up two places, another is new in this period.
C6_Witness ==
    /\ Called("calculateRankings")
    /\ \E i, j \in 1..Len(ret.rankings) :
          /\ ret.rankings[i].previousRank = Num(3)
          /\ ret.rankings[i].rank = 1
          /\ ret.rankings[i].change = Num(2)
          /\ ret.rankings[j].previousRank = Undefined
          /\ ret.rankings[j].change = Undefined

\* C1: getCountryHistoricalData returns for each metric exactly one point
\* per summary that contains the site, in ascending month order, each
\* point's month being the month key of the summary its value was read
\* from; a month in which the site is absent never appears.
HasSite(report, tld) == \E i \in 1..Len(report.reports) : report.reports[i].tld = tld

C1_SeriesMonths ==
    (Called("getCountryHistoricalData") /\ ret # Null) =>
        \A metric \in Metrics :
            LET series == ret[metric]
                with == {i \in 1..Len(call.reports) : HasSite(call.reports[i], call.tld)}
            IN  /\ Len(series) = Cardinality(with)
                /\ \A i, j \in 1..Len(series) :
                      i < j => KeyCompare(series[i].month, series[j].month) < 0
                /\ \A p \in 1..Len(series) :
                      \E i \in with :
                          /\ call.reports[i].month = series[p].month
                          /\ FindByTld(call.reports[i].reports, call.tld).metrics[metric]
                                = series[p].value


\* C11: after any sequence of completed saveReport runs, for any months in
\* any order, the manifest's first entry is the latest month ever saved;
\* getLatestMonth returns that month and fetchLatestReport returns that
\* month's summary, both reading position 0 without sorting.
MonthOrdinal(key) ==
    (key[1] * 1000 + key[2] * 100 + key[3] * 10 + key[4]) * 12 + key[6] * 10 + key[7]

SavedMonths == {m \in MonthKeys : summaries[m].st = "ok"}

GreatestSaved ==
    CHOOSE m \in SavedMonths : \A n \in SavedMonths : MonthOrdinal(m) >= MonthOrdinal(n)

C11_LatestIsGreatestSaved ==
    IF SavedMonths = {}
    THEN GetLatestMonth = Null /\ FetchLatestReport = Null
    ELSE /\ ManifestEntries[1].month = GreatestSaved
         /\ GetLatestMonth = Str(GreatestSaved)
         /\ FetchLatestReport = summaries[GreatestSaved].doc
         /\ FetchLatestReport.month = GreatestSaved

\* C11 witness: two months are saved and the older month was saved last.
C11_Witness ==
    /\ pc = "idle"
    /\ Cardinality(SavedMonths) = 2
    /\ \E m \in SavedMonths :
          /\ m # GreatestSaved
          /\ summaries[m].doc.generatedAt > summaries[GreatestSaved].doc.generatedAt
    /\ GetLatestMonth = Str(GreatestSaved)


\* C12: for a summary with at least one report and integer scores in
\* 0..100, calculateAverageScores returns for each metric on its own the
\* integer q nearest to the arithmetic mean total / count, a half rounding
\* up: q - 1/2 <= total / count < q + 1/2.
RECURSIVE SumOf(_, _)
SumOf(list, metric) ==
    IF list = <<>> THEN 0 ELSE Head(list).metrics[metric] + SumOf(Tail(list), metric)

C12_AverageRoundsHalfUp ==
    (Called("calculateAverageScores") /\ Len(call.report.reports) >= 1) =>
        \A metric \in Metrics :
            LET total == SumOf(call.report.reports, metric)
                count == Len(call.report.reports)
                q == ret[metric]
            IN  /\ q \in 0..100
                /\ 2 * count * q - count <= 2 * total
                /\ 2 * total < 2 * count * q + count

\* C12 witness: two reports whose performance scores 80 and 81 average to
\* 80.5, returned as 81, while accessibility 90 and 0 average to 45.
C12_Witness ==
    /\ Called("calculateAverageScores")
    /\ Len(call.report.reports) = 2
    /\ call.report.reports[1].metrics.performance = 80
    /\ call.report.reports[2].metrics.performance = 81
    /\ ret.performance = 81
    /\ call.report.reports[1].metrics.accessibility = 90
    /\ call.report.reports[2].metrics.accessibility = 0
    /\ ret.accessibility = 45


\* C13: when all four categories are present, each score extractMetrics
\* returns is an integer in 0..100 equal to the raw score times 100 rounded
\* to the nearest integer; a category whose raw score is null or not set
\* gives the integer 0.
Extracted == Called("extractMetrics") /\ ret # TypeError

CategoryOf(metric) == IF metric = "bestPractices" THEN "best-practices" ELSE metric

\* v is an integer in 0..100 (v may be a value of any kind).
IsScore(v) == ToString(v) \in {ToString(i) : i \in 0..100}

C13_ScoresAreRounded ==
    Extracted =>
        \A metric \in Metrics :
            LET raw == call.lhr.categories[CategoryOf(metric)].score
                q == ret[metric]
            IN  /\ IsScore(q)
                /\ IF raw.t = "number"
                   THEN /\ 2 * Thousand * q - Thousand <= 2 * 100 * raw.v
                        /\ 2 * 100 * raw.v < 2 * Thousand * q + Thousand
                   ELSE q = 0


\* C14: an audit a category references is in that category's issue list
\* exactly when the audit lookup has it and either its raw score (null
\* counting as 1) is below 1 or its display mode is 'informative' and it
\* has details: the list holds each referenced audit as often as the
\* category references it when that holds, and not at all otherwise.  So a
\* score of exactly 1 with another display mode is left out and a score of
\* 0 is included.
AuditRefsOf(lhr, c) ==
    IF "auditRefs" \in DOMAIN lhr.categories[c] THEN lhr.categories[c].auditRefs ELSE <<>>

AuditIds == {r.id : r \in RefPool}

BelowOne(score) == score.t = "number" /\ score.v < Thousand

Qualifies(lhr, id) ==
    /\ id \in DOMAIN lhr.audits
    /\ \/ BelowOne(lhr.audits[id].score)
       \/ (lhr.audits[id].scoreDisplayMode = "informative" /\ lhr.audits[id].details)

C14_IssueListMembership ==
    Extracted =>
        \A metric \in Metrics, id \in AuditIds :
            LET refs == AuditRefsOf(call.lhr, CategoryOf(metric))
                list == ret.audits[metric]
            IN  Count([n \in 1..Len(list) |-> list[n].id = id])
                = IF Qualifies(call.lhr, id)
                  THEN Count([n \in 1..Len(refs) |-> refs[n].id = id])
                  ELSE 0

\* C14 witness: the performance category references an audit with score 0,
\* one with score 1 and display mode 'numeric', and an informative one
\* with a null score and details; the first and the last are listed.
C14_Witness ==
    /\ Extracted
    /\ LET refs == AuditRefsOf(call.lhr, "performance")
       IN  /\ Len(refs) = 3
           /\ refs[1].id = "speed-index"
           /\ refs[2].id = "image-alt"
           /\ refs[3].id = "uses-http2"
    /\ Len(ret.audits.performance) = 2
    /\ ret.audits.performance[1].id = "uses-http2"
    /\ ret.audits.performance[2].id = "image-alt"


\* C15: every category issue list is ordered by severity rank ascending
\* (high, medium, low) and within one severity by weight descending; issues
\* equal in both keys stand in the order of their auditRefs entries, and
\* extracting the same raw result again gives the same lists.
SeverityRank(issue) ==
    CASE issue.severity = "high" -> 0
      [] issue.severity = "medium" -> 1
      [] issue.severity = "low" -> 2

SameKeys(a, b) == a.severity = b.severity /\ a.weight = b.weight

IdsOf(list) == [n \in 1..Len(list) |-> list[n].id]

C15_IssuesOrdered ==
    Extracted =>
        \A metric \in Metrics :
            LET refs == AuditRefsOf(call.lhr, CategoryOf(metric))
                list == ret.audits[metric]
            IN  /\ \A i, j \in 1..Len(list) :
                      i < j =>
                          \/ SeverityRank(list[i]) < SeverityRank(list[j])
                          \/ /\ SeverityRank(list[i]) = SeverityRank(list[j])
                             /\ list[i].weight >= list[j].weight
                /\ \A k \in 1..Len(list) :
                      IdsOf(SelectSeq(list, LAMBDA issue : SameKeys(issue, list[k])))
                      = IdsOf(SelectSeq(refs, LAMBDA ref :
                                \E n \in 1..Len(list) :
                                    list[n].id = ref.id /\ SameKeys(list[n], list[k])))
                /\ ExtractMetrics(call.lhr).audits[metric] = list

\* C15 witness: of three referenced audits the last one, of severity high,
\* is listed first, and the two of severity low and equal weight follow in
\* their auditRefs order.
C15_Witness ==
    /\ Extracted
    /\ LET refs == AuditRefsOf(call.lhr, "performance")
           list == ret.audits.performance
       IN  /\ Len(refs) = 3
           /\ Len(list) = 3
           /\ list[1].id = refs[3].id
           /\ list[2].id = refs[1].id
           /\ list[3].id = refs[2].id
           /\ list[1].severity = "high"
           /\ list[2].id # list[3].id
           /\ SameKeys(list[2], list[3])


\* C16: when every tld of the batch already has an entry in the month's
\* summary, saveReport leaves the number of entries as it was, and for each
\* report of the batch exactly one entry has its tld and that entry is the
\* report's summary form.
HasTld(list, tld) == \E i \in 1..Len(list) : list[i].tld = tld

BatchKnown(m) == \A k \in 1..Len(reports) : HasTld(SummaryEntries(m), reports[k].tld)

C16_SaveStep ==
    \A now \in NowPool :
        (SaveReport(now) /\ reports # <<>> /\ BatchKnown(MonthKey(now))) =>
            LET before == SummaryEntries(MonthKey(now))
                after == SummaryEntries(MonthKey(now))'
            IN  /\ Len(after) = Len(before)
                /\ \A k \in 1..Len(reports) :
                      /\ Count([i \in 1..Len(after) |-> after[i].tld = reports[k].tld]) = 1
                      /\ \E i \in 1..Len(after) : after[i] = SummaryReport(reports[k])

C16_KnownSitesReplaced == [][C16_SaveStep]_vars


\* C17: a saveReport run on a month without a summary writes exactly the
\* batch's reports in summary form, one entry per report of the batch, and
\* after every saveReport run the month's entries are in ascending order of
\* site name.
NameAscending(list) ==
    \A i, j \in 1..Len(list) : i < j => LocaleCompare(list[i].country, list[j].country) <= 0

C17_SaveStep ==
    \A now \in NowPool :
        SaveReport(now) =>
            LET after == SummaryEntries(MonthKey(now))'
            IN  /\ NameAscending(after)
                /\ summaries[MonthKey(now)] = Absent =>
                      /\ Len(after) = Len(reports)
                      /\ \A k \in 1..Len(reports) :
                            Count([i \in 1..Len(after) |-> after[i] = SummaryReport(reports[k])])
                            = Count([i \in 1..Len(reports) |-> reports[i] = reports[k]])

C17_FreshSummaryIsBatch == [][C17_SaveStep]_vars


\* C18: a saveReport run removes no site: every tld with an entry in the
\* month's summary before the run has one after it, and the entries and
\* the detail documents of the tlds that are not in the batch are the same
\* as before.
C18_SaveStep ==
    \A now \in NowPool :
        SaveReport(now) =>
            LET before == SummaryEntries(MonthKey(now))
                after == SummaryEntries(MonthKey(now))'
            IN  /\ \A i \in 1..Len(before) : HasTld(after, before[i].tld)
                /\ \A i \in 1..Len(before) :
                      ~HasTld(reports, before[i].tld) =>
                          Count([j \in 1..Len(after) |-> after[j] = before[i]])
                          = Count([j \in 1..Len(before) |-> before[j] = before[i]])
                /\ \A t \in Tlds :
                      ~HasTld(reports, t) => details'[MonthKey(now)][t] = details[MonthKey(now)][t]

C18_NoSiteRemoved == [][C18_SaveStep]_vars


\* C19: a run that loaded its site list ends with exit code 0 whatever
\* sites failed, all of them included; a run whose site list is missing or
\* unparseable, or whose tld argument matches no site, ends with a nonzero
\* exit code with no audit started and nothing written.
C19_Step ==
    /\ \A file \in CountriesFiles, targetTld \in TldArguments :
          (Start(file, targetTld) /\ StartFails(file, targetTld)) =>
              /\ exitCode' # 0
              /\ pc' = "idle"
              /\ chrome' = chrome
              /\ attempts' = <<>>
              /\ UNCHANGED storeVars
    /\ \A now \in NowPool : SaveReport(now) => exitCode' = 0

C19_ExitCodes == [][C19_Step]_vars


\* C20: updateManifest called again with the month, filename and
\* generatedAt of the call before it leaves the manifest as that call left
\* it; after every call the manifest has exactly one entry for the call's
\* month, holding the call's filename and generatedAt; a call for a month
\* the manifest already has changes no other entry.
C20_Step ==
    \A month \in UpsertMonths, generatedAt \in UpsertTimes :
        \A filename \in UpsertFilenames(month) :
            UpdateManifestWith(month, filename, generatedAt) =>
                LET before == ManifestEntries
                    after == ManifestEntries'
                    entry == [month |-> month, filename |-> filename,
                              generatedAt |-> generatedAt]
                IN  /\ Count([i \in 1..Len(after) |-> after[i].month = month]) = 1
                    /\ \E i \in 1..Len(after) : after[i] = entry
                    /\ call'.again => manifest' = manifest
                    /\ (\E i \in 1..Len(before) : before[i].month = month) =>
                          /\ Len(after) = Len(before)
                          /\ \A i \in 1..Len(before) :
                                IF before[i].month = month
                                THEN after[i] = entry
                                ELSE after[i] = before[i]

C20_UpsertIdempotent == [][C20_Step]_vars

\* C20 witness: the third call repeated the second call's arguments for
\* the older of two months in the manifest.
C20_Witness ==
    /\ tick = 3
    /\ call.fn = "updateManifest"
    /\ call.again
    /\ Len(ManifestEntries) = 2
    /\ ManifestEntries[2] = [month |-> call.month, filename |-> call.filename,
                             generatedAt |-> call.generatedAt]


\* C21: each of the five timing fields extractMetrics returns equals the
\* numeric value of its raw audit whenever that audit is present and has a
\* numeric value, the value 0 included, and is null only when the audit or
\* its value is absent.
TimingAudit(field) ==
    CASE field = "firstContentfulPaint" -> "first-contentful-paint"
      [] field = "largestContentfulPaint" -> "largest-contentful-paint"
      [] field = "totalBlockingTime" -> "total-blocking-time"
      [] field = "cumulativeLayoutShift" -> "cumulative-layout-shift"
      [] field = "speedIndex" -> "speed-index"

TimingFields ==
    {"firstContentfulPaint", "largestContentfulPaint", "totalBlockingTime",
     "cumulativeLayoutShift", "speedIndex"}

HasNumericValue(lhr, id) ==
    id \in DOMAIN lhr.audits /\ lhr.audits[id].numericValue.t = "number"

C21_TimingFields ==
    Extracted =>
        /\ DOMAIN ret.timing = TimingFields
        /\ \A field \in TimingFields :
              IF HasNumericValue(call.lhr, TimingAudit(field))
              THEN ret.timing[field] = call.lhr.audits[TimingAudit(field)].numericValue
              ELSE ret.timing[field] = Null


\* C22: calculateRankings keeps sites with equal values of the metric in
\* their input order, in the current ranking and in the ordering of the
\* previous summary that previousRank comes from; so two sites tied in both
\* periods and listed in the same order in both keep their order, and
\* when they are the only sites both get change 0.
TldsOf(list) == [n \in 1..Len(list) |-> list[n].tld]

FirstAt(list, tld) == FindIndex([n \in 1..Len(list) |-> list[n].tld = tld])

TiedInBoth(a, b, prev, metric) ==
    /\ a.score = b.score
    /\ FirstAt(prev, a.tld) # 0
    /\ FirstAt(prev, b.tld) # 0
    /\ prev[FirstAt(prev, a.tld)].metrics[metric] = prev[FirstAt(prev, b.tld)].metrics[metric]

C22_TiesKeepInputOrder ==
    Called("calculateRankings") =>
        LET input == call.currentReport.reports
            out == ret.rankings
            metric == call.metric
        IN  /\ \A k \in 1..Len(out) :
                  TldsOf(SelectSeq(out, LAMBDA r : r.score = out[k].score))
                  = TldsOf(SelectSeq(input, LAMBDA r : r.metrics[metric] = out[k].score))
            /\ call.previousReport # Null =>
                  LET prev == call.previousReport.reports
                  IN  \A i, j \in 1..Len(out) :
                          (/\ i < j
                           /\ TiedInBoth(out[i], out[j], prev, metric)
                           /\ FirstAt(prev, out[i].tld) < FirstAt(prev, out[j].tld)) =>
                              /\ out[i].previousRank.v < out[j].previousRank.v
                              /\ Len(out) = 2 /\ Len(prev) = 2 =>
                                    out[i].change = Num(0) /\ out[j].change = Num(0)

\* C22 witness: two sites with equal values, listed after a third site in
\* the current summary and in the same order in the previous one, are
\* ranked first and second in input order and both have change 0.
C22_Witness ==
    /\ Called("calculateRankings")
    /\ call.previousReport # Null
    /\ Len(ret.rankings) = 3
    /\ ret.rankings[1].tld = call.currentReport.reports[2].tld
    /\ ret.rankings[2].tld = call.currentReport.reports[3].tld
    /\ ret.rankings[1].tld # ret.rankings[2].tld
    /\ ret.rankings[1].score = ret.rankings[2].score
    /\ ret.rankings[1].change = Num(0)
    /\ ret.rankings[2].change = Num(0)


\* C23: every issue extractMetrics emits has severity 'high' when its raw
\* score is exactly 0, 'medium' when the raw score is above 0 and below 0.5,
\* and 'low' otherwise: at exactly 0.5, from 0.5 up to 1, and for a null
\* raw score.
ExpectedSeverity(score) ==
    IF score.t # "number" THEN "low"
    ELSE IF score.v = 0 THEN "high"
    ELSE IF 0 < score.v /\ 2 * score.v < Thousand THEN "medium"
    ELSE "low"

C23_SeverityClasses ==
    Extracted =>
        \A metric \in Metrics :
            \A n \in 1..Len(ret.audits[metric]) :
                LET issue == ret.audits[metric][n]
                IN  /\ issue.score = call.lhr.audits[issue.id].score
                    /\ issue.severity = ExpectedSeverity(issue.score)

\* C23 witness: one list holds an issue of score 0 as high, one of score
\* 0.45 as medium, and one of score exactly 0.5 as low; another list holds
\* an issue with a null score as low.
C23_Witness ==
    /\ Extracted
    /\ Len(ret.audits.performance) = 3
    /\ ret.audits.performance[1].score = Num(0)
    /\ ret.audits.performance[1].severity = "high"
    /\ ret.audits.performance[2].score = Num(450)
    /\ ret.audits.performance[2].severity = "medium"
    /\ ret.audits.performance[3].score = Num(500)
    /\ ret.audits.performance[3].severity = "low"
    /\ \E n \in 1..Len(ret.audits.accessibility) :
          /\ ret.audits.accessibility[n].score = Null
          /\ ret.audits.accessibility[n].severity = "low"


\* C24: in auditAllCountries at most one browser session is alive at any
\* time: a session is launched only when none is alive and it is killed
\* when its audit ends, in success and in failure; the loop moves from a
\* site to the next one only through the pacing delay, also after a failed
\* site, and leaves the last site without a delay.
C24_OneSession ==
    /\ chrome \in {0, 1}
    /\ chrome = 1 <=> pc = "lighthouse"
    /\ pc = "delay" => idx < Len(countries) /\ Len(reports) = idx

C24_Step ==
    /\ Launch => chrome = 0 /\ chrome' = 1
    /\ SiteEnds => chrome' = 0
    /\ (SiteEnds /\ idx < Len(countries)) => pc' = "delay" /\ idx' = idx
    /\ (SiteEnds /\ idx >= Len(countries)) => pc' = "loop" /\ idx' = idx + 1
    /\ (pc # "idle" /\ idx' # idx /\ idx < Len(countries)) => Delay

C24_SequentialWithDelay == []C24_OneSession /\ [][C24_Step]_vars

\* C24 witness: the session of the second site is the only one alive, after
\* the first site failed and the delay passed.
C24_Witness ==
    /\ pc = "lighthouse"
    /\ idx = 2
    /\ chrome = 1
    /\ attempts = <<1, 1>>
    /\ Len(reports) = 1
    /\ reports[1].metrics = ZeroMetrics


\* C25: fetchAllReports starts one fetch per manifest entry and, in
\* whatever order the fetches settle, returns exactly the summaries of the
\* months whose document loaded, in manifest order; a missing or
\* unparseable summary gives no entry, a missing or unparseable manifest
\* the empty list, and a month's result does not depend on the others.
LoadedInManifestOrder ==
    LET loaded == SelectSeq(ManifestEntries, LAMBDA e : summaries[e.month].st = "ok")
    IN  [i \in 1..Len(loaded) |-> summaries[loaded[i].month].doc]

FetchingAll(stage) == call.fn = "fetchAllReports" /\ call.stage = stage

C25_FetchAllAnyOrder ==
    /\ (FetchingAll("summaries") \/ FetchingAll("done")) =>
          /\ Len(call.results) = Len(ManifestEntries)
          /\ \A i \in 1..Len(call.results) :
                \/ call.results[i] = Pending
                \/ call.results[i] = (IF summaries[ManifestEntries[i].month].st = "ok"
                                      THEN summaries[ManifestEntries[i].month].doc
                                      ELSE Null)
    /\ FetchingAll("done") => ret = [list |-> LoadedInManifestOrder]

\* C25 witness: of two months the second one's fetch settled first; the
\* first month's document is unparseable and the list holds the second
\* month's summary alone.
C25_Witness ==
    /\ FetchingAll("done")
    /\ call.order = <<2, 1>>
    /\ summaries[call.months[1]] = Malformed
    /\ Len(ret.list) = 1
    /\ ret.list[1].month = call.months[2]


\* C26: calculateRankings, getCountryHistoricalData and
\* calculateAverageScores leave their arguments as they were: the current
\* and the previous summary, the collection of summaries and the averaged
\* summary hold the same entries in the same order after the call.
C26_Step ==
    /\ CalculateRankingsCall =>
          /\ call'.currentReport = call.currentReport
          /\ call'.previousReport = call.previousReport
    /\ GetCountryHistoricalDataCall => call'.reports = call.reports
    /\ CalculateAverageScoresCall => call'.report = call.report

C26_InputsUnchanged == [][C26_Step]_vars

\* C26 witness: calculateRankings has returned for a current and a previous
\* summary that were both listed in another order than their rankings.
C26_Witness ==
    /\ Called("calculateRankings")
    /\ call.previousReport # Null
    /\ Len(ret.rankings) = 2
    /\ ret.rankings[1].tld = call.currentReport.reports[2].tld
    /\ ret.rankings[1].score > ret.rankings[2].score
    /\ Len(call.previousReport.reports) = 2
    /\ ret.rankings[1].previousRank = Num(1)
    /\ call.previousReport.reports[2].tld = ret.rankings[1].tld
    /\ call.previousReport.reports[1].tld = ret.rankings[2].tld


\* C27: the home page calls calculateAverageScores only on a summary with
\* at least one report, for every store the audit script can produce, a
\* run over an empty site list included: no call divides by a count of 0.
C27_NoAverageOfEmpty ==
    (call.fn = "Home" /\ call.averaged) => Len(call.latestReport.reports) >= 1


\* C28: one saveReport run writes the detail documents, then the monthly
\* summary, then the manifest; so at every point during and after any
\* sequence of runs, a run that stops between two writes included, every
\* manifest entry's filename names a summary document that is in the store.
SummaryExists(filename) ==
    \E m \in MonthKeys : filename = SummaryFilename(m) /\ summaries[m] # Absent

C28_ManifestNamesSummaries ==
    \A i \in 1..Len(ManifestEntries) : SummaryExists(ManifestEntries[i].filename)

C28_WriteStep ==
    /\ WriteSummary =>
          \A k \in 1..Len(reports) : details[call.month][reports[k].tld].st = "ok"
    /\ WriteManifest => summaries[call.month].st = "ok"
    /\ WriteDetail => pc' = "details" /\ UNCHANGED <<manifest, summaries>>

C28_WriteOrder == []C28_ManifestNamesSummaries /\ [][C28_WriteStep]_vars

\* C28 witness: a second run stopped after it wrote its month's summary
\* and before it updated the manifest, which lists the first run's month.
C28_Witness ==
    /\ pc = "idle"
    /\ exitCode = 1
    /\ tick = 2
    /\ Len(ManifestEntries) = 1
    /\ \E m \in MonthKeys :
          /\ m # ManifestEntries[1].month
          /\ summaries[m].st = "ok"
          /\ Len(summaries[m].doc.reports) = 2


\* C29: when the current and the previous summary hold the same set of
\* sites, each identifier once, the change values of the rankings returned
\* by calculateRankings sum to zero and the previousRank values are exactly
\* 1..N, none twice.
TldSet(list) == {list[n].tld : n \in 1..Len(list)}

EachTldOnce(list) == Cardinality(TldSet(list)) = Len(list)

RECURSIVE SumOfChanges(_, _)
SumOfChanges(rankings, n) ==
    IF n = 0 THEN 0 ELSE rankings[n].change.v + SumOfChanges(rankings, n - 1)

SameSites ==
    /\ Called("calculateRankings")
    /\ call.previousReport # Null
    /\ EachTldOnce(call.currentReport.reports)
    /\ EachTldOnce(call.previousReport.reports)
    /\ TldSet(call.currentReport.reports) = TldSet(call.previousReport.reports)

C29_ChangesSumToZero ==
    SameSites =>
        /\ \A n \in 1..Len(ret.rankings) : ret.rankings[n].change.t = "number"
        /\ SumOfChanges(ret.rankings, Len(ret.rankings)) = 0
        /\ {ret.rankings[n].previousRank.v : n \in 1..Len(ret.rankings)}
              = 1..Len(ret.rankings)
        /\ Len(ret.rankings) = Len(call.previousReport.reports)

\* C29 witness: three sites in both summaries, and a site that moved up.
C29_Witness ==
    /\ SameSites
    /\ Len(ret.rankings) = 3
    /\ \E n \in 1..3 : ret.rankings[n].change = Num(1)
    /\ \E n \in 1..3 : ret.rankings[n].change = Num(-1)


AllLoadsDone ==
    /\ call.fn = "CountryAuditClient"
    /\ \A i \in 1..Len(call.loads) : call.loads[i].at = "done"

NewestOutcome == call.loads[Len(call.loads)].outcome

LoadingEndsFalse == AllLoadsDone => call.loading = FALSE

\* C30: when the tld prop of CountryAuditClient changes while an earlier
\* load is in flight, then once every load has completed the page shows the
\* report or the error of the load for the most recently requested tld, and
\* loading is false.
C30_NewestLoadShown ==
    /\ LoadingEndsFalse
    /\ AllLoadsDone /\ call.loads[Len(call.loads)].overlaps => Rendered = NewestOutcome

====
